---- MODULE Spec2Model ----
(***************************************************************************)
(* Build-time scripts of Soletta: JSON validation (sol-flow-node-type-     *)
(* validate.py), the node-type C generator (sol-flow-node-type-gen.py),    *)
(* the dependency resolver (dependency-resolver.py) and the test runner    *)
(* (suite.py).  Each script has its own variables and its own              *)
(* specification; the variables of the other scripts stay at their         *)
(* initial value.                                                          *)
(***************************************************************************)
EXTENDS Integers, Sequences, FiniteSets, TLC

VARIABLES
    vIn,         \* validate.py: the two input files (data, schema)
    vpc,         \* validate.py: position in __main__
    vRes,        \* validate.py: what json_load_and_check did
    vExit,       \* validate.py: process exit status (-1 while running)
    gIn,         \* gen.py: command line and the contents of the input files
    gpc,         \* gen.py: position in __main__
    gRes,        \* gen.py: what load_json did
    gFs,         \* gen.py: the output files on disk
    gOut,        \* gen.py: what this run wrote to standard output
    gExit,       \* gen.py: process exit status (-1 while running)
    gRun,        \* gen.py: 1 for the first run, 2 for the run repeated
    gFirst,      \* gen.py: files and standard output left by the first run
    eIn,         \* gen.py entries: one node type (ports of one direction, option members)
    epc,         \* gen.py entries: which entry has been generated
    eHdr,        \* gen.py entries: what generate_header_entry wrote
    eCode,       \* gen.py entries: what generate_code_entry wrote
    dCtx,        \* dependency-resolver.py: the DepContext (kconfig, makefile_vars)
    dLast,       \* dependency-resolver.py: the check handled last, its probes, the context before it
    dCount,      \* dependency-resolver.py: checks handled so far by run
    sArgs,       \* suite.py: --tests split into names, and whether --valgrind is given
    sMain,       \* suite.py: the main thread: pc, tool index, loop index
    sThr,        \* suite.py: the test threads of the current tool: pc and local success
    sStat,       \* suite.py: stat = manager.dict()
    sLog,        \* suite.py: log = manager.list()
    sOut,        \* suite.py: the summaries printed and the log files written, per tool
    oIn,         \* OIC generators: which script runs, and the schema directory's contents
    opc,         \* OIC generators: position in __main__
    oList,       \* OIC generators: the schema files still to be generated, in loop order
    oEquiv,      \* OIC generators: the equivalent dict of object_from_repr_vec_fn_common_c
    oGen,        \* OIC generators: the list generated
    oOut,        \* OIC generators: the master JSON and the C file written
    oRun,        \* OIC generators: 1 for the first run, 2 for the run repeated
    oFirst,      \* OIC generators: what the first run wrote
    stIn,        \* stub-gen.py: the command line, the stub as it was, the input descriptions
    stpc,        \* stub-gen.py: position in __main__
    stFs,        \* stub-gen.py: the output stub file on disk
    stExit,      \* stub-gen.py: exit status and the exception that ended the run
    aIn,         \* check-api.py: the symbols of the version script and the headers' declarations
    apc,         \* check-api.py: position in __main__
    aI,          \* check-api.py: index of the exported symbol handled next
    aListed,     \* check-api.py: versionScriptSymbols
    aMissing,    \* check-api.py: missingSymbols, as (file, symbol) in insertion order
    aExit,       \* check-api.py: process exit status (-1 while running)
    smIn,        \* check-samples-dependencies.py: the sample directory and the skip list
    smpc,        \* check-samples-dependencies.py: position in __main__
    smFiles,     \* check-samples-dependencies.py: fbpFiles still to be checked
    smSt,        \* check-samples-dependencies.py: samplesData, the files checked, problems['missing_deps']
    smMk,        \* check-samples-dependencies.py: the directory is in problems['missing_makefiles']
    smExit,      \* check-samples-dependencies.py: process exit status (-1 while running)
    tIn,         \* template.py: the context files, the environment, the template's expression
    tpc,         \* template.py: position in __main__
    tI,          \* template.py: index of the context file read next
    tCtx,        \* template.py: the context dict built by load_context
    tOut,        \* template.py: the output written
    cRes,        \* OIC client glue: the fields of struct client_resource
    cLoop,       \* OIC client glue: the timers armed in the main loop, the discovery requests alive
    cOpen,       \* OIC client glue: the node is open or closed
    cEv,         \* OIC client glue: the last call and what it did
    svRes,       \* OIC server glue: fields of struct server_resource and the resource state
    svArmed,     \* OIC server glue: the update timers armed in the main loop
    svOpen,      \* OIC server glue: the node is open or closed
    svNotified,  \* OIC server glue: the state sent with the last notification
    svEv,        \* OIC server glue: the last call and what it did
    rIn,         \* OIC decoders: the properties of the two resource types
    rpc,         \* OIC decoders: position, from the generator to the request
    rGen,        \* OIC decoders: what the generator wrote for the second type
    rState,      \* OIC decoders: the fields of the node's state struct
    rEv          \* OIC decoders: the request handled and its result

valVars == <<vIn, vpc, vRes, vExit>>

genVars == <<gIn, gpc, gRes, gFs, gOut, gExit, gRun, gFirst>>

entVars == <<eIn, epc, eHdr, eCode>>

depVars == <<dCtx, dLast, dCount>>

suiteVars == <<sArgs, sMain, sThr, sStat, sLog, sOut>>

oicVars == <<oIn, opc, oList, oEquiv, oGen, oOut, oRun, oFirst>>

stubVars == <<stIn, stpc, stFs, stExit>>

apiVars == <<aIn, apc, aI, aListed, aMissing, aExit>>

sampVars == <<smIn, smpc, smFiles, smSt, smMk, smExit>>

tplVars == <<tIn, tpc, tI, tCtx, tOut>>

cliVars == <<cRes, cLoop, cOpen, cEv>>

srvVars == <<svRes, svArmed, svOpen, svNotified, svEv>>

reprVars == <<rIn, rpc, rGen, rState, rEv>>

\* what each script leaves alone
notVal == <<genVars, entVars, depVars, suiteVars, oicVars, stubVars, apiVars,
            sampVars, tplVars, cliVars, srvVars, reprVars>>

notGen == <<valVars, entVars, depVars, suiteVars, oicVars, stubVars, apiVars,
            sampVars, tplVars, cliVars, srvVars, reprVars>>

notEnt == <<valVars, genVars, depVars, suiteVars, oicVars, stubVars, apiVars,
            sampVars, tplVars, cliVars, srvVars, reprVars>>

notDep == <<valVars, genVars, entVars, suiteVars, oicVars, stubVars, apiVars,
            sampVars, tplVars, cliVars, srvVars, reprVars>>

notSuite == <<valVars, genVars, entVars, depVars, oicVars, stubVars, apiVars,
              sampVars, tplVars, cliVars, srvVars, reprVars>>

notOic == <<valVars, genVars, entVars, depVars, suiteVars, stubVars, apiVars,
            sampVars, tplVars, cliVars, srvVars, reprVars>>

notStub == <<valVars, genVars, entVars, depVars, suiteVars, oicVars, apiVars,
             sampVars, tplVars, cliVars, srvVars, reprVars>>

notApi == <<valVars, genVars, entVars, depVars, suiteVars, oicVars, stubVars,
            sampVars, tplVars, cliVars, srvVars, reprVars>>

notSamp == <<valVars, genVars, entVars, depVars, suiteVars, oicVars,
             stubVars, apiVars, tplVars, cliVars, srvVars, reprVars>>

notTpl == <<valVars, genVars, entVars, depVars, suiteVars, oicVars, stubVars,
            apiVars, sampVars, cliVars, srvVars, reprVars>>

notCli == <<valVars, genVars, entVars, depVars, suiteVars, oicVars, stubVars,
            apiVars, sampVars, tplVars, srvVars, reprVars>>

notSrv == <<valVars, genVars, entVars, depVars, suiteVars, oicVars, stubVars,
            apiVars, sampVars, tplVars, cliVars, reprVars>>

notRepr == <<valVars, genVars, entVars, depVars, suiteVars, oicVars,
             stubVars, apiVars, sampVars, tplVars, cliVars, srvVars>>

vars == <<valVars,
          genVars,
          entVars,
          depVars,
          suiteVars,
          oicVars,
          stubVars,
          apiVars,
          sampVars,
          tplVars,
          cliVars,
          srvVars,
          reprVars>>

(***************************************************************************)
(* Bounds                                                                  *)
(***************************************************************************)
MaxErrs == 2      \* validation errors yielded by validator.descend
MaxPath == 2      \* distinct schema_path keys of validation errors
MaxTypes == 2     \* node types in one input description
MaxPorts == 3     \* ports of one direction of a node type
MaxArr == 2       \* largest array size in a port name, NAME[n]
MaxMembers == 2   \* option members of a node type
MaxChecks == 2    \* dependency checks in the configuration
MaxFlagChars == 2 \* characters of the joined flag string of a cflags/ldflags check
MaxTests == 3     \* names in the --tests list
MaxSchemas == 2   \* files in the schema directory of the OIC generators
MaxInputs == 2    \* input descriptions on the command line of the stub generator
MaxListed == 2    \* symbols listed in the version script
MaxDecls == 2     \* declarations found in the headers
MaxCtxFiles == 2  \* context files on the command line of template.py
MaxTimers == 2    \* timers of one kind the main loop can hold
MaxPending == 2   \* discovery requests the OIC client can hold

(***************************************************************************)
(* Sequences helpers                                                       *)
(***************************************************************************)
SeqsUpTo(S, n) == UNION {[1..k -> S] : k \in 0..n}

(***************************************************************************)
(* json_load_and_check (replicated verbatim in sol-flow-node-type-gen.py   *)
(* and sol-flow-node-type-validate.py)                                     *)
(***************************************************************************)

\* A jsonschema error as show_schema_exception reads it:
\*   sp        its schema_path (the sort key)
\*   ctx       exc.context is not empty (anyOf/oneOf failures)
\*   container exc.context[-1].instance is a dict or a list
\*   parent    walking exc.instance along absolute_path[:-1] reaches a
\*             dict or a list (true only when exc itself sits at the root)
ErrShapes ==
    { [ctx |-> FALSE, container |-> FALSE, parent |-> FALSE],
      [ctx |-> TRUE,  container |-> TRUE,  parent |-> FALSE],
      [ctx |-> TRUE,  container |-> FALSE, parent |-> TRUE],
      [ctx |-> TRUE,  container |-> FALSE, parent |-> FALSE] }

Errors == { [sp |-> p, ctx |-> s.ctx, container |-> s.container, parent |-> s.parent] :
            p \in 1..MaxPath, s \in ErrShapes }

NoError == [sp |-> 0, ctx |-> FALSE, container |-> FALSE, parent |-> FALSE]

\* A file handed to load_json: whether json.loads accepts it, and for a
\* rejected file whether the reported column lies past the end of its line
\* (an empty or truncated file).
JsonFiles == { [parse |-> "ok", pastEnd |-> FALSE],
               [parse |-> "bad", pastEnd |-> FALSE],
               [parse |-> "bad", pastEnd |-> TRUE] }

\* show_json_load_exception: the single-location branch reads
\* lines[lineno - 1][colno - 1] before printing, which raises IndexError
\* when the column is past the end of the line.
show_json_load_exception(file) ==
    IF file.pastEnd THEN "IndexError" ELSE "ok"

\* load_json (inner): "ok", or the class of the exception that leaves it.
load_json_file(file) ==
    IF file.parse = "ok" THEN "ok"
    ELSE IF show_json_load_exception(file) = "ok" THEN "ValueError"
    ELSE show_json_load_exception(file)

\* show_obj: dict and list are printed; anything else prints its parent,
\* found by indexing exc.instance with the absolute path.
show_obj(exc) ==
    IF exc.container THEN "ok"
    ELSE IF exc.parent THEN "ok"
    ELSE "ReportError"

\* show_schema_exception: "ok", or the exception raised while printing.
show_schema_exception(exc) ==
    IF ~exc.ctx THEN "ok" ELSE show_obj(exc)

\* sorted(..., key=lambda e: e.schema_path): a stable sort.
RECURSIVE InsertBySchemaPath(_, _)
InsertBySchemaPath(e, s) ==
    IF s = <<>> THEN <<e>>
    ELSE IF e.sp < Head(s).sp THEN <<e>> \o s
    ELSE <<Head(s)>> \o InsertBySchemaPath(e, Tail(s))

RECURSIVE SortBySchemaPath(_)
SortBySchemaPath(s) ==
    IF s = <<>> THEN <<>>
    ELSE InsertBySchemaPath(s[Len(s)], SortBySchemaPath(SubSeq(s, 1, Len(s) - 1)))

\* The reporting loop: report the sorted errors in turn; stop at the first
\* whose report raises.  Result: the errors reported and how the loop ended.
RECURSIVE ReportLoop(_, _)
ReportLoop(todo, done) ==
    IF todo = <<>> THEN [reported |-> done, crash |-> FALSE]
    ELSE IF show_schema_exception(Head(todo)) = "ok"
         THEN ReportLoop(Tail(todo), Append(done, Head(todo)))
         ELSE [reported |-> done, crash |-> TRUE]

Raise(cls, reported) == [kind |-> "raise", exc |-> cls, reported |-> reported]

Return(reported) == [kind |-> "return", exc |-> "None", reported |-> reported]

\* AfterLoop without the "if e: raise e".
AfterLoop_NoRaise(loop) ==
    IF loop.crash THEN Raise("ReportError", loop.reported)
    ELSE Return(loop.reported)

\* "if e: raise e" after the loop, else "return data".
AfterLoop(loop) ==
    IF loop.crash THEN Raise("ReportError", loop.reported)
    ELSE IF loop.reported # <<>> THEN Raise("ValidationError", loop.reported)
    ELSE Return(loop.reported)

\* df, sf: the data and schema files; schemaErr: what check_schema raises
\* (NoError when the schema is valid); errs: what validator.descend yields.
json_load_and_check(df, sf, schemaErr, errs) ==
    IF load_json_file(df) # "ok" THEN Raise(load_json_file(df), <<>>)
    ELSE IF load_json_file(sf) # "ok" THEN Raise(load_json_file(sf), <<>>)
    ELSE IF schemaErr # NoError
         THEN IF show_schema_exception(schemaErr) = "ok"
              THEN Raise("SchemaError", <<>>)
              ELSE Raise("ReportError", <<>>)
    ELSE AfterLoop(ReportLoop(SortBySchemaPath(errs), <<>>))

(***************************************************************************)
(* sol-flow-node-type-validate.py __main__                                 *)
(***************************************************************************)
NoRes == [kind |-> "none", exc |-> "None", reported |-> <<>>]

CaughtClasses == {"ValueError", "ValidationError", "SchemaError"}

ValInputs ==
    { [data |-> d, schema |-> s, schemaErr |-> se, errs |-> es] :
        d \in JsonFiles, s \in JsonFiles,
        se \in {NoError} \cup {e \in Errors : e.sp = 1},
        es \in SeqsUpTo(Errors, MaxErrs) }

ValIdle == /\ vIn = [data |-> [parse |-> "ok", pastEnd |-> FALSE],
                     schema |-> [parse |-> "ok", pastEnd |-> FALSE],
                     schemaErr |-> NoError, errs |-> <<>>]
           /\ vpc = "idle"
           /\ vRes = NoRes
           /\ vExit = -1

ValInit == /\ vIn \in ValInputs
           /\ vpc = "main"
           /\ vRes = NoRes
           /\ vExit = -1

\* try: json_load_and_check(args.input, args.schema, ...)
ValCall ==
    /\ vpc = "main"
    /\ vRes' = json_load_and_check(vIn.data, vIn.schema, vIn.schemaErr, vIn.errs)
    /\ vpc' = "called"
    /\ UNCHANGED <<vIn, vExit>>
    /\ UNCHANGED notVal

\* except (ValueError, ValidationError, SchemaError): exit(1)
ValExcept ==
    /\ vpc = "called"
    /\ vRes.kind = "raise"
    /\ vRes.exc \in CaughtClasses
    /\ vExit' = 1
    /\ vpc' = "exited"
    /\ UNCHANGED <<vIn, vRes>>
    /\ UNCHANGED notVal

\* any other exception leaves __main__: the interpreter prints the
\* traceback and exits with status 1
ValUncaught ==
    /\ vpc = "called"
    /\ vRes.kind = "raise"
    /\ vRes.exc \notin CaughtClasses
    /\ vExit' = 1
    /\ vpc' = "exited"
    /\ UNCHANGED <<vIn, vRes>>
    /\ UNCHANGED notVal

\* the script ends
ValEnd ==
    /\ vpc = "called"
    /\ vRes.kind = "return"
    /\ vExit' = 0
    /\ vpc' = "exited"
    /\ UNCHANGED <<vIn, vRes>>
    /\ UNCHANGED notVal

ValNext == ValCall \/ ValExcept \/ ValUncaught \/ ValEnd

(***************************************************************************)
(* Claims on validation                                                    *)
(***************************************************************************)
ValReachedValidation ==
    /\ vIn.data.parse = "ok"
    /\ vIn.schema.parse = "ok"
    /\ vIn.schemaErr = NoError

ValInputValid == ValReachedValidation /\ vIn.errs = <<>>

\* C1: sol-flow-node-type-validate.py exits with status zero exactly when
\* both files parse, the schema is a valid schema and the input has no
\* validation error; in every other case the exit status is not zero.
C1_ExitStatus ==
    vpc = "exited" =>
        /\ vExit \in {0, 1}
        /\ (vExit = 0) <=> ValInputValid

\* C1 witness: a run over an input that violates the schema has exited
\* with a non-zero status.
C1_Witness ==
    /\ vpc = "exited"
    /\ vIn.data.parse = "ok" /\ vIn.schema.parse = "ok" /\ vIn.schemaErr = NoError
    /\ vIn.errs # <<>>
    /\ vExit = 1

\* C3: json_load_and_check returns the data exactly when validation yields
\* no error, and with one or more errors all of them have been reported,
\* in schema_path order, when it raises.
C3_AllReported ==
    (vpc \in {"called", "exited"} /\ ValReachedValidation) =>
        /\ (vRes.kind = "return") <=> (vIn.errs = <<>>)
        /\ vIn.errs # <<>> =>
              /\ vRes.kind = "raise"
              /\ vRes.reported = SortBySchemaPath(vIn.errs)

(***************************************************************************)
(* sol-flow-node-type-gen.py __main__                                      *)
(***************************************************************************)

\* Output file names on the command line.  argparse.FileType('w') maps "-"
\* to sys.stdout, whose name is "<stdout>"; no file of that name exists.
FileNames == {"out.h", "out.c"}

Absent == [exists |-> FALSE, content |-> <<>>]

\* A node type of the description, by what generating it does: "none"
\* (both entries are written), "header" (generate_header_entry raises, e.g.
\* KeyError in data_type_to_c or AttributeError in port_name_and_size) or
\* "code" (generate_code_entry raises, e.g. str_to_c of an input port that
\* has no description).
TypeKinds == {"none", "header", "code"}

NoDoc == [hasName |-> TRUE, types |-> <<>>]

Docs == { [hasName |-> n, types |-> ts] :
            n \in BOOLEAN, ts \in SeqsUpTo(TypeKinds, MaxTypes) \ {<<>>} }

OkFile == [parse |-> "ok", pastEnd |-> FALSE]

PlainErr == [sp |-> 1, ctx |-> FALSE, container |-> FALSE, parent |-> FALSE]

DeepErr == [sp |-> 1, ctx |-> TRUE, container |-> FALSE, parent |-> FALSE]

\* The input files a run can meet: a data file that does not parse, a
\* schema that does not parse, a schema that is no schema, a description
\* that violates the schema, and the descriptions that validate.
GenFiles ==
    { [data |-> d, schema |-> OkFile, schemaErr |-> NoError, errs |-> <<>>, doc |-> NoDoc] :
        d \in JsonFiles \ {OkFile} }
    \cup
    { [data |-> OkFile, schema |-> f, schemaErr |-> NoError, errs |-> <<>>, doc |-> NoDoc] :
        f \in JsonFiles \ {OkFile} }
    \cup
    { [data |-> OkFile, schema |-> OkFile, schemaErr |-> e, errs |-> <<>>, doc |-> NoDoc] :
        e \in {PlainErr, DeepErr} }
    \cup
    { [data |-> OkFile, schema |-> OkFile, schemaErr |-> NoError, errs |-> <<e>>, doc |-> NoDoc] :
        e \in {PlainErr, DeepErr} }
    \cup
    { [data |-> OkFile, schema |-> OkFile, schemaErr |-> NoError, errs |-> <<>>, doc |-> d] :
        d \in Docs }

GenInputs ==
    { [files |-> f, hdr |-> h, code |-> c] :
        f \in GenFiles, h \in {"-", "out.h"}, c \in {"-", "out.c"} }

\* What earlier runs may have left on disk.
OldFiles == { Absent, [exists |-> TRUE, content |-> <<"old">>] }

\* argparse.FileType('w'): the file is created or truncated; "-" is stdout.
OpenAppend(fs, name) ==
    IF name = "-" THEN fs
    ELSE [fs EXCEPT ![name] = [exists |-> TRUE, content |-> fs[name].content]]

OpenForWrite(fs, name) ==
    IF name = "-" THEN fs
    ELSE [fs EXCEPT ![name] = [exists |-> TRUE, content |-> <<>>]]

\* outfile.write(chunk) on the state st = [fs, out].
WriteTo(st, name, chunk) ==
    IF name = "-" THEN [st EXCEPT !.out = Append(@, chunk)]
    ELSE [st EXCEPT !.fs[name].content = Append(@, chunk)]

\* os.unlink(name): raises FileNotFoundError when there is no such file.
CanUnlink(fs, name) == name # "-" /\ fs[name].exists

Unlink(fs, name) == [fs EXCEPT ![name] = Absent]

\* The except blocks: unlink the header, then the code file.  An unlink
\* that raises leaves the handler, so the second unlink is not reached.
Cleanup(fs, hdr, code) ==
    IF ~CanUnlink(fs, hdr) THEN fs
    ELSE IF ~CanUnlink(Unlink(fs, hdr), code) THEN Unlink(fs, hdr)
    ELSE Unlink(Unlink(fs, hdr), code)

\* load_json(infile, schema, prefix): json_load_and_check, then
\* data["name"], which raises KeyError when the description has no name.
load_json(files) ==
    IF json_load_and_check(files.data, files.schema, files.schemaErr, files.errs).kind = "raise"
    THEN json_load_and_check(files.data, files.schema, files.schemaErr, files.errs)
    ELSE IF ~files.doc.hasName THEN Raise("KeyError", <<>>)
    ELSE Return(<<>>)

\* The loop over data["types"]: generate_header_entry, then
\* generate_code_entry, for each type; an entry that raises has written
\* its first part.  st = [fs, out, ok].
RECURSIVE EmitTypes(_, _, _, _, _)
EmitTypes(st, types, i, hdr, code) ==
    IF i > Len(types) THEN st
    ELSE IF types[i] = "header"
         THEN [WriteTo(st, hdr, <<"h_part", i>>) EXCEPT !.ok = FALSE]
    ELSE IF types[i] = "code"
         THEN [WriteTo(WriteTo(st, hdr, <<"h_entry", i>>), code, <<"c_part", i>>)
                  EXCEPT !.ok = FALSE]
    ELSE EmitTypes(WriteTo(WriteTo(st, hdr, <<"h_entry", i>>), code, <<"c_entry", i>>),
                   types, i + 1, hdr, code)

\* The second try block up to the tails: heads, entries, tails.
Emit(fs, out, types, hdr, code) ==
    LET heads == WriteTo(WriteTo([fs |-> fs, out |-> out, ok |-> TRUE],
                                 hdr, <<"h_head", 0>>), code, <<"c_head", 0>>)
        body == EmitTypes(heads, types, 1, hdr, code)
    IN  IF ~body.ok THEN body
        ELSE WriteTo(WriteTo(body, hdr, <<"h_tail", 0>>), code, <<"c_tail", 0>>)

GenIdle == /\ gIn = [files |-> [data |-> OkFile, schema |-> OkFile, schemaErr |-> NoError,
                                errs |-> <<>>, doc |-> NoDoc],
                     hdr |-> "-", code |-> "-"]
           /\ gpc = "idle"
           /\ gRes = NoRes
           /\ gFs = [n \in FileNames |-> Absent]
           /\ gOut = <<>>
           /\ gExit = -1
           /\ gRun = 0
           /\ gFirst = [fs |-> [n \in FileNames |-> Absent], out |-> <<>>, exit |-> -1]

GenInit == /\ gIn \in GenInputs
           /\ gpc = "start"
           /\ gRes = NoRes
           /\ gFs \in [FileNames -> OldFiles]
           /\ gOut = <<>>
           /\ gExit = -1
           /\ gRun = 1
           /\ gFirst = [fs |-> [n \in FileNames |-> Absent], out |-> <<>>, exit |-> -1]

\* args = parser.parse_args(): both output files are opened for writing
GenParseArgs ==
    /\ gpc = "start"
    /\ gFs' = OpenForWrite(OpenForWrite(gFs, gIn.hdr), gIn.code)
    /\ gpc' = "load"
    /\ UNCHANGED <<gIn, gRes, gOut, gExit, gRun, gFirst>>
    /\ UNCHANGED notGen

\* try: data = load_json(args.input, args.schema, args.prefix)
GenLoad ==
    /\ gpc = "load"
    /\ gRes' = load_json(gIn.files)
    /\ gpc' = IF load_json(gIn.files).kind = "raise" THEN "except1" ELSE "emit"
    /\ UNCHANGED <<gIn, gFs, gOut, gExit, gRun, gFirst>>
    /\ UNCHANGED notGen

\* except Exception as e: unlink both outputs, then exit(1) for ValueError,
\* ValidationError and SchemaError and re-raise for the rest; either way,
\* and also when an unlink raises, the process ends with status 1
GenLoadFailed ==
    /\ gpc = "except1"
    /\ gFs' = Cleanup(gFs, gIn.hdr, gIn.code)
    /\ gExit' = 1
    /\ gpc' = "exited"
    /\ UNCHANGED <<gIn, gRes, gOut, gRun, gFirst>>
    /\ UNCHANGED notGen

\* the second try block, with its bare except: emit heads, entries and
\* tails and close both files; on any exception unlink both and re-raise
GenEmit ==
    /\ gpc = "emit"
    /\ LET st == Emit(gFs, gOut, gIn.files.doc.types, gIn.hdr, gIn.code)
       IN  /\ gOut' = st.out
           /\ gFs' = IF st.ok THEN st.fs ELSE Cleanup(st.fs, gIn.hdr, gIn.code)
           /\ gExit' = IF st.ok THEN 0 ELSE 1
    /\ gpc' = "exited"
    /\ UNCHANGED <<gIn, gRes, gRun, gFirst>>
    /\ UNCHANGED notGen

\* the build runs the generator again on the same command line
GenRunAgain ==
    /\ gpc = "exited"
    /\ gRun = 1
    /\ gFirst' = [fs |-> gFs, out |-> gOut, exit |-> gExit]
    /\ gRun' = 2
    /\ gpc' = "start"
    /\ gRes' = NoRes
    /\ gOut' = <<>>
    /\ gExit' = -1
    /\ UNCHANGED <<gIn, gFs>>
    /\ UNCHANGED notGen

GenNext == GenParseArgs \/ GenLoad \/ GenLoadFailed \/ GenEmit \/ GenRunAgain

(***************************************************************************)
(* Claims on the generator's __main__                                      *)
(***************************************************************************)
GenOutputFiles == {gIn.hdr, gIn.code} \ {"-"}

\* what a complete header and a complete code file hold for the run's types
RECURSIVE CompleteEntries(_, _, _)
CompleteEntries(tag, n, i) ==
    IF i > n THEN <<>> ELSE <<<<tag, i>>>> \o CompleteEntries(tag, n, i + 1)

CompleteHeader(n) == <<<<"h_head", 0>>>> \o CompleteEntries("h_entry", n, 1) \o <<<<"h_tail", 0>>>>

CompleteCode(n) == <<<<"c_head", 0>>>> \o CompleteEntries("c_entry", n, 1) \o <<<<"c_tail", 0>>>>

\* C2: after an unsuccessful run neither output file exists; a parse,
\* schema or validation failure gives exit status 1; output files are left
\* in place only when both were completely written.
C2_NoOutputAfterFailure ==
    gpc = "exited" =>
        /\ gExit # 0 => \A n \in GenOutputFiles : ~gFs[n].exists
        /\ gRes.kind = "raise" => gExit = 1
        /\ (\E n \in GenOutputFiles : gFs[n].exists) =>
              /\ gExit = 0
              /\ gIn.hdr # "-" => gFs[gIn.hdr].content = CompleteHeader(Len(gIn.files.doc.types))
              /\ gIn.code # "-" => gFs[gIn.code].content = CompleteCode(Len(gIn.files.doc.types))

\* C2 (supporting): the statement of C2 holds of every run whose header
\* output is a file and not standard output.
C2_HoldsForHeaderFiles == gIn.hdr # "-" => C2_NoOutputAfterFailure

Ports == { [size |-> n, hasType |-> t] : n \in 0..MaxArr, t \in BOOLEAN }

\* An option member: its data_type, and its "default": absent, null or a
\* value of the type.
Members == { [type |-> ty, default |-> d] :
               ty \in {"string", "int"}, d \in {"absent", "null", "value"} }

EntInputs == { [dir |-> d, ports |-> ps, members |-> ms] :
                 d \in {"in", "out"},
                 ps \in SeqsUpTo(Ports, MaxPorts),
                 ms \in SeqsUpTo(Members, MaxMembers) }

\* The port macros of generate_header_entry.  i is enumerate's index
\* (0-based), offset is port_number_offset.  For each port: the macro
\* NAME = i + offset, then for port_idx in range(psize) the macro
\* NAME_<port_idx> = i + offset with offset += 1 after each, and after the
\* loop (its else branch always runs) offset -= 1 if psize > 0.
RECURSIVE HeaderPortMacros(_, _, _)
HeaderPortMacros(ports, i, offset) ==
    IF i >= Len(ports) THEN <<>>
    ELSE LET psize == ports[i + 1].size
             entry == [macro |-> i + offset,
                       indexed |-> [k \in 1..psize |-> i + offset + (k - 1)]]
             after == IF psize > 0 THEN offset + psize - 1 ELSE offset
         IN  <<entry>> \o HeaderPortMacros(ports, i + 1, after)

\* value_to_c(value, data_type): "raise" where the code raises
\* (value.get on None for an int default of null).
value_to_c(member) ==
    IF member.type = "string"
    THEN IF member.default = "null" THEN "NULL" ELSE "str"
    ELSE IF member.default = "null" THEN "raise" ELSE "int"

\* The member comment in the options struct: default = o.get("default");
\* "(default: ...)" if default is not None, else "(required)".
HeaderMemberDoc(member) ==
    IF member.default = "value" THEN "default" ELSE "required"

\* The <NAME>_OPTIONS_DEFAULTS macro: an initializer if "default" in o.
HeaderMemberInit(member) == member.default # "absent"

generate_header_entry(in) ==
    [ok |-> \A k \in 1..Len(in.members) :
                HeaderMemberInit(in.members[k]) => value_to_c(in.members[k]) # "raise",
     docs |-> [k \in 1..Len(in.members) |-> HeaderMemberDoc(in.members[k])],
     inits |-> [k \in 1..Len(in.members) |-> HeaderMemberInit(in.members[k])],
     macros |-> HeaderPortMacros(in.ports, 0, 0)]

\* The first loop of generate_code_entry over the ports: ports with a
\* "type" key are skipped; for the others psize 0 counts as 1, the count
\* grows by psize and get_port gets "if (port < count) return &port".
\* Result: the (limit, port) tests in order; port is the 1-based position
\* of the port among the declared ports.
RECURSIVE CodeGetPortTests(_, _, _)
CodeGetPortTests(ports, j, count) ==
    IF j > Len(ports) THEN <<>>
    ELSE IF ports[j].hasType THEN CodeGetPortTests(ports, j + 1, count)
    ELSE LET psize == IF ports[j].size = 0 THEN 1 ELSE ports[j].size
         IN  <<[limit |-> count + psize, port |-> j]>>
                 \o CodeGetPortTests(ports, j + 1, count + psize)

\* in_ports_count / out_ports_count after that loop
CodePortsCount(ports) ==
    IF CodeGetPortTests(ports, 1, 0) = <<>> THEN 0
    ELSE CodeGetPortTests(ports, 1, 0)[Len(CodeGetPortTests(ports, 1, 0))].limit

\* The port descriptions: array_size = psize, base_port_idx = port_base,
\* port_base += psize if psize else 1.
RECURSIVE CodePortDescriptions(_, _, _)
CodePortDescriptions(ports, j, port_base) ==
    IF j > Len(ports) THEN <<>>
    ELSE <<[array_size |-> ports[j].size, base_port_idx |-> port_base]>>
            \o CodePortDescriptions(ports, j + 1,
                   port_base + (IF ports[j].size # 0 THEN ports[j].size ELSE 1))

\* The member descriptions: .required is "false" if "default" in o else
\* "true"; .defvalue is written when "default" in o.
CodeMemberDescription(member) ==
    [required |-> member.default = "absent",
     defvalue |-> member.default # "absent"]

generate_code_entry(in) ==
    [ok |-> \A k \in 1..Len(in.members) :
                in.members[k].default # "absent" => value_to_c(in.members[k]) # "raise",
     tests |-> CodeGetPortTests(in.ports, 1, 0),
     count |-> CodePortsCount(in.ports),
     ports |-> CodePortDescriptions(in.ports, 1, 0),
     members |-> [k \in 1..Len(in.members) |-> CodeMemberDescription(in.members[k])],
     required |-> \E k \in 1..Len(in.members) : in.members[k].default = "absent"]

\* The generated C function <name>_get_port_in_internal (or _out_): the
\* first test "port < limit" that holds decides; 0 stands for NULL.
RECURSIVE get_port_internal(_, _)
get_port_internal(tests, port) ==
    IF tests = <<>> THEN 0
    ELSE IF port < Head(tests).limit THEN Head(tests).port
    ELSE get_port_internal(Tail(tests), port)

NoHdr == [ok |-> FALSE, docs |-> <<>>, inits |-> <<>>, macros |-> <<>>]

NoCode == [ok |-> FALSE, tests |-> <<>>, count |-> 0, ports |-> <<>>,
           members |-> <<>>, required |-> FALSE]

EntIdle == /\ eIn = [dir |-> "in", ports |-> <<>>, members |-> <<>>]
           /\ epc = "idle"
           /\ eHdr = NoHdr
           /\ eCode = NoCode

EntInit == /\ eIn \in EntInputs
           /\ epc = "type"
           /\ eHdr = NoHdr
           /\ eCode = NoCode

\* generate_header_entry(output_header, t)
EntHeader ==
    /\ epc = "type"
    /\ eHdr' = generate_header_entry(eIn)
    /\ epc' = IF generate_header_entry(eIn).ok THEN "header" ELSE "raised"
    /\ UNCHANGED <<eIn, eCode>>
    /\ UNCHANGED notEnt

\* generate_code_entry(output_code, t)
EntCode ==
    /\ epc = "header"
    /\ eCode' = generate_code_entry(eIn)
    /\ epc' = "code"
    /\ UNCHANGED <<eIn, eHdr>>
    /\ UNCHANGED notEnt

EntNext == EntHeader \/ EntCode

(***************************************************************************)
(* Claims on the generated entries                                         *)
(***************************************************************************)
PortSlots(port) == IF port.size = 0 THEN 1 ELSE port.size

RECURSIVE SumSlots(_, _)
SumSlots(ports, j) ==
    IF j > Len(ports) THEN 0 ELSE PortSlots(ports[j]) + SumSlots(ports, j + 1)

PortViewsAgree ==
    /\ \A j \in 1..Len(eIn.ports) :
          LET base == eCode.ports[j].base_port_idx
          IN  /\ eHdr.macros[j].macro = base
              /\ \A p \in 0..(SumSlots(eIn.ports, 1) + 1) :
                    (get_port_internal(eCode.tests, p) = j)
                        <=> (base <= p /\ p < base + PortSlots(eIn.ports[j]))
    /\ eCode.count = SumSlots(eIn.ports, 1)

\* C4: for every declared port the header macro equals base_port_idx,
\* get_port_*_internal returns the port for exactly the indices base ..
\* base + max(array_size, 1) - 1, and the reported count is the sum of
\* max(array_size, 1) over the declared ports.
C4_PortNumberingAgrees == epc = "code" => PortViewsAgree

\* C4 (supporting): the three views agree for every node type none of
\* whose ports has a "type" key.
C4_AgreesWithoutTypeKey ==
    (epc = "code" /\ \A j \in 1..Len(eIn.ports) : ~eIn.ports[j].hasType) => PortViewsAgree

\* C5: a member is documented "(required)", has no initializer in the
\* defaults macro and has .required = true without .defvalue exactly when
\* the JSON gives it no default; the options description is required
\* exactly when some member is.
C5_DefaultsAgree ==
    epc = "code" =>
        /\ \A k \in 1..Len(eIn.members) :
              LET noDefault == eIn.members[k].default = "absent"
              IN  /\ (eHdr.docs[k] = "required") <=> noDefault
                  /\ (~eHdr.inits[k]) <=> noDefault
                  /\ eCode.members[k].required <=> noDefault
                  /\ (~eCode.members[k].defvalue) <=> noDefault
        /\ eCode.required <=> \E k \in 1..Len(eIn.members) : eCode.members[k].required

\* C5 (supporting): the statement of C5 holds of every node type none of
\* whose members has "default": null.
C5_AgreesWithoutNullDefault ==
    (\A k \in 1..Len(eIn.members) : eIn.members[k].default # "null") => C5_DefaultsAgree

(***************************************************************************)
(* dependency-resolver.py                                                  *)
(***************************************************************************)
DepNames == {"A", "B"}

FlagChars == {"-", "W"}

\* The entries of the "dependencies" list, by type.  ver: one of
\* exact-version, atleast-version, max-version is given; cflags, ldflags:
\* the ccode check has a cflags (ldflags) object with a value and no
\* append_to; flags: the flag list joined with " ", as its characters.
DepChecks ==
    { [type |-> "pkg-config", dep |-> d, ver |-> v] : d \in DepNames, v \in BOOLEAN }
    \cup { [type |-> "ccode", dep |-> d, cflags |-> c, ldflags |-> l] :
             d \in DepNames, c \in BOOLEAN, l \in BOOLEAN }
    \cup { [type |-> t, dep |-> d, required |-> r] :
             t \in {"exec", "python"}, d \in DepNames, r \in BOOLEAN }
    \cup { [type |-> t, dep |-> d, flags |-> f] :
             t \in {"cflags", "ldflags"}, d \in DepNames,
             f \in SeqsUpTo(FlagChars, MaxFlagChars) \ {<<>>} }

\* What the environment answers to the probes of one check: the exit
\* status of each run_command (TRUE for status 0) and whether which()
\* finds the executable; each[k] answers the k-th single-flag compile.
ProbeOutcomes ==
    [ver : BOOLEAN, cflags : BOOLEAN, ldflags : BOOLEAN, one : BOOLEAN,
     each : [1..MaxFlagChars -> BOOLEAN]]

\* Makefile variable names: HAVE_<DEP>, <DEP>, HAVE_PYTHON_<DEP>,
\* <DEP>_CFLAGS, <DEP>_LDFLAGS, NOT_FOUND and the append_to variable.
MkKeys == ({"HAVE", "PATH", "HAVE_PYTHON", "CFLAGS", "LDFLAGS"} \X DepNames)
              \cup {<<"NOT_FOUND", "-">>, <<"APPEND_TO", "-">>}

Unset == [attrib |-> "none", value |-> <<>>]

\* DepContext.__init__
EmptyContext == [kconfig |-> [d \in DepNames |-> "unset"],
                 mk |-> [k \in MkKeys |-> Unset]]

\* DepContext.add_kconfig("HAVE_<dep>", "bool", v)
add_kconfig(ctx, dep, v) == [ctx EXCEPT !.kconfig[dep] = v]

\* DepContext.add_makefile_var: a value is the sequence of its
\* space-separated words; with the same attrib and no overwrite the new
\* value is appended to the current one.
add_makefile_var(ctx, k, v, attrib, overwrite) ==
    LET curr == ctx.mk[k]
        val == IF curr # Unset /\ curr.attrib = attrib /\ ~overwrite
               THEN curr.value \o v
               ELSE v
    IN  [ctx EXCEPT !.mk[k] = [attrib |-> attrib, value |-> val]]

add_append_makefile_var(ctx, k, v, overwrite) == add_makefile_var(ctx, k, v, "+=", overwrite)

add_cond_makefile_var(ctx, k, v) == add_makefile_var(ctx, k, v, "?=", FALSE)

\* DepContext.find_makefile_var
find_makefile_var(ctx, k) == ctx.mk[k].value

Probe(cmd, ok) == [cmd |-> cmd, ok |-> ok]

Handled(ctx, probes, success) == [ctx |-> ctx, probes |-> probes, success |-> success]

\* handle_pkgconfig_check that asks for the flags whatever the version
\* probe said and decides on the flags alone
handle_pkgconfig_check_IgnoreVersion(ctx, conf, o) ==
    LET verProbes == IF conf.ver THEN <<Probe("version", o.ver)>> ELSE <<>>
        c1 == IF o.cflags
              THEN add_cond_makefile_var(ctx, <<"CFLAGS", conf.dep>>, <<"cflags">>)
              ELSE ctx
        c2 == IF o.ldflags
              THEN add_cond_makefile_var(c1, <<"LDFLAGS", conf.dep>>, <<"libs">>)
              ELSE c1
        success == o.cflags \/ o.ldflags
    IN  Handled(add_kconfig(c2, conf.dep, IF success THEN "y" ELSE "n"),
                verProbes \o <<Probe("--cflags", o.cflags), Probe("--libs", o.ldflags)>>,
                success)

\* handle_pkgconfig_check
handle_pkgconfig_check(ctx, conf, o) ==
    LET verProbes == IF conf.ver THEN <<Probe("version", o.ver)>> ELSE <<>>
        ver_match == IF conf.ver THEN o.ver ELSE TRUE
        c1 == IF ver_match /\ o.cflags
              THEN add_cond_makefile_var(ctx, <<"CFLAGS", conf.dep>>, <<"cflags">>)
              ELSE ctx
        c2 == IF ver_match /\ o.ldflags
              THEN add_cond_makefile_var(c1, <<"LDFLAGS", conf.dep>>, <<"libs">>)
              ELSE c1
        success == ver_match /\ (o.cflags \/ o.ldflags)
    IN  Handled(add_kconfig(c2, conf.dep, IF success THEN "y" ELSE "n"),
                IF ver_match
                THEN verProbes \o <<Probe("--cflags", o.cflags), Probe("--libs", o.ldflags)>>
                ELSE verProbes,
                success)

\* set_makefile_compflags for a flags object with a value and no append_to
set_makefile_compflags(ctx, given, dep, suffix) ==
    IF given THEN add_cond_makefile_var(ctx, <<suffix, dep>>, <<"value">>) ELSE ctx

\* handle_ccode_check that compiles a second time when the first fails
handle_ccode_check_Retry(ctx, conf, o) ==
    IF o.one
    THEN Handled(set_makefile_compflags(
                     set_makefile_compflags(add_kconfig(ctx, conf.dep, "y"),
                                            conf.cflags, conf.dep, "CFLAGS"),
                     conf.ldflags, conf.dep, "LDFLAGS"),
                 <<Probe("compile", TRUE)>>, TRUE)
    ELSE Handled(add_kconfig(ctx, conf.dep, IF o.ver THEN "y" ELSE "n"),
                 <<Probe("compile", FALSE), Probe("compile", o.ver)>>, o.ver)

\* handle_ccode_check (with compile_test)
handle_ccode_check(ctx, conf, o) ==
    IF o.one
    THEN Handled(set_makefile_compflags(
                     set_makefile_compflags(add_kconfig(ctx, conf.dep, "y"),
                                            conf.cflags, conf.dep, "CFLAGS"),
                     conf.ldflags, conf.dep, "LDFLAGS"),
                 <<Probe("compile", TRUE)>>, TRUE)
    ELSE Handled(add_kconfig(ctx, conf.dep, "n"), <<Probe("compile", FALSE)>>, FALSE)

\* The NOT_FOUND label of a required dependency that is missing:
\* find_makefile_var("NOT_FOUND") + label, stored with overwrite.
NoteNotFound(ctx, conf, success) ==
    IF conf.required /\ ~success
    THEN add_append_makefile_var(ctx, <<"NOT_FOUND", "-">>,
             find_makefile_var(ctx, <<"NOT_FOUND", "-">>) \o <<conf.dep>>, TRUE)
    ELSE ctx

\* handle_exec_check: path = which(exe); <DEP> ?= path, HAVE_<DEP> ?= y/n
handle_exec_check(ctx, conf, o) ==
    Handled(add_cond_makefile_var(
                add_cond_makefile_var(NoteNotFound(ctx, conf, o.one), <<"PATH", conf.dep>>,
                                      IF o.one THEN <<"path">> ELSE <<"None">>),
                <<"HAVE", conf.dep>>, IF o.one THEN <<"y">> ELSE <<"n">>),
            <<Probe("which", o.one)>>, o.one)

\* handle_python_check: runs "import <pkgname>"; HAVE_PYTHON_<DEP> ?= y/n
handle_python_check(ctx, conf, o) ==
    Handled(add_cond_makefile_var(NoteNotFound(ctx, conf, o.one),
                                  <<"HAVE_PYTHON", conf.dep>>,
                                  IF o.one THEN <<"y">> ELSE <<"n">>),
            <<Probe("python", o.one)>>, o.one)

\* The loop "for i in flags" of handle_flags_check: flags is the joined
\* string, so i runs over its characters; each is compiled together with
\* the ones accepted so far and kept when that compiles.
RECURSIVE FlagsLoop(_, _, _, _, _)
FlagsLoop(flags, k, o, supported, probes) ==
    IF k > Len(flags) THEN [supported |-> supported, probes |-> probes]
    ELSE FlagsLoop(flags, k + 1, o,
                   IF o.each[k] THEN Append(supported, flags[k]) ELSE supported,
                   Append(probes, Probe("compile-one", o.each[k])))

\* handle_flags_check (handle_cflags_check, handle_ldflags_check)
handle_flags_check(ctx, conf, o) ==
    IF o.one
    THEN Handled(add_append_makefile_var(ctx, <<"APPEND_TO", "-">>, conf.flags, FALSE),
                 <<Probe("compile-all", TRUE)>>, TRUE)
    ELSE LET loop == FlagsLoop(conf.flags, 1, o, <<>>, <<Probe("compile-all", FALSE)>>)
         IN  Handled(IF loop.supported # <<>>
                     THEN add_append_makefile_var(ctx, <<"APPEND_TO", "-">>,
                                                  loop.supported, FALSE)
                     ELSE ctx,
                     loop.probes, loop.supported # <<>>)

\* type_handlers
type_handlers(ctx, conf, o) ==
    CASE conf.type = "pkg-config" -> handle_pkgconfig_check(ctx, conf, o)
      [] conf.type = "ccode" -> handle_ccode_check(ctx, conf, o)
      [] conf.type = "exec" -> handle_exec_check(ctx, conf, o)
      [] conf.type = "python" -> handle_python_check(ctx, conf, o)
      [] conf.type \in {"cflags", "ldflags"} -> handle_flags_check(ctx, conf, o)

\* The answers a check does not ask for are fixed, so that one handling of
\* a check is one step.
RelevantOutcome(conf, o) ==
    /\ (conf.type # "pkg-config" => o.cflags /\ o.ldflags)
    /\ (conf.type = "pkg-config" => o.one /\ (~conf.ver => o.ver))
    /\ (conf.type = "pkg-config" /\ conf.ver /\ ~o.ver => o.cflags /\ o.ldflags)
    /\ (conf.type \notin {"pkg-config"} => o.ver)
    /\ \A k \in 1..MaxFlagChars :
          (conf.type \in {"cflags", "ldflags"} /\ ~o.one /\ k <= Len(conf.flags)) \/ o.each[k]

NoCheck == [type |-> "none", dep |-> "A"]

DepIdle == /\ dCtx = EmptyContext
           /\ dLast = [conf |-> NoCheck, probes |-> <<>>, before |-> EmptyContext,
                       success |-> FALSE]
           /\ dCount = -1

DepInit == /\ dCtx = EmptyContext
           /\ dLast = [conf |-> NoCheck, probes |-> <<>>, before |-> EmptyContext,
                       success |-> FALSE]
           /\ dCount = 0

\* run: one iteration of "for dep in dep_checks": the handler of the
\* entry's type is called once, with whatever the probes answer
DepRunCheck ==
    /\ dCount >= 0
    /\ dCount < MaxChecks
    /\ \E conf \in DepChecks, o \in ProbeOutcomes :
          /\ RelevantOutcome(conf, o)
          /\ dCtx' = type_handlers(dCtx, conf, o).ctx
          /\ dLast' = [conf |-> conf, probes |-> type_handlers(dCtx, conf, o).probes,
                       before |-> dCtx, success |-> type_handlers(dCtx, conf, o).success]
    /\ dCount' = dCount + 1
    /\ UNCHANGED notDep

DepNext == DepRunCheck

(***************************************************************************)
(* Claims on the dependency resolver                                       *)
(***************************************************************************)
DepHandled == dLast.conf.type # "none"

SomeProbeFailed == \E i \in 1..Len(dLast.probes) : ~dLast.probes[i].ok

ProbeFailed(cmd) ==
    \E i \in 1..Len(dLast.probes) : dLast.probes[i].cmd = cmd /\ ~dLast.probes[i].ok

LastWord(v) == IF v = <<>> THEN "" ELSE v[Len(v)]

\* What records a dependency as present: HAVE_<DEP> = y in the Kconfig
\* context, or a change of a flags variable.
PresenceKeys == ({"CFLAGS", "LDFLAGS"} \X DepNames) \cup {<<"APPEND_TO", "-">>}

OnlyAbsenceRecorded ==
    /\ \A k \in PresenceKeys : dCtx.mk[k] = dLast.before.mk[k]
    /\ \A d \in DepNames :
          dCtx.kconfig[d] # dLast.before.kconfig[d] => dCtx.kconfig[d] = "n"
    /\ LastWord(dCtx.mk[<<"HAVE", dLast.conf.dep>>].value) # "y"
          \/ dCtx.mk[<<"HAVE", dLast.conf.dep>>] = dLast.before.mk[<<"HAVE", dLast.conf.dep>>]
    /\ LastWord(dCtx.mk[<<"HAVE_PYTHON", dLast.conf.dep>>].value) # "y"
          \/ dCtx.mk[<<"HAVE_PYTHON", dLast.conf.dep>>]
                 = dLast.before.mk[<<"HAVE_PYTHON", dLast.conf.dep>>]

TestNames == {"t1", "t2"}

\* args.tests.split(): any list of names, repeated names included
TestLists == SeqsUpTo(TestNames, MaxTests)

\* valgrind_tools of run_valgrind_test; run_test has one pass, written to
\* test-suite.log
ValgrindTools == <<"memcheck">>

PlainPass == <<"plain">>

SuiteTools(args) == IF args.valgrind THEN ValgrindTools ELSE PlainPass

\* stat = manager.dict(): -1 stands for "no such key"
EmptyStat == [n \in TestNames |-> -1]

NewThread == [pc |-> "new", success |-> 1]

\* print_log: the counts of the summary, from stat
Summary(stat) ==
    [total |-> Cardinality({n \in TestNames : stat[n] # -1}),
     pass |-> Cardinality({n \in TestNames : stat[n] = 1}),
     fail |-> Cardinality({n \in TestNames : stat[n] = 0})]

\* t.join() returns without waiting
ThreadFinished_NoWait(t) == TRUE

\* t.join() returns once the thread has ended
ThreadFinished(t) == t.pc = "done"

SuiteIdle == /\ sArgs = [tests |-> <<>>, valgrind |-> FALSE]
             /\ sMain = [pc |-> "idle", tool |-> 0, i |-> 0]
             /\ sThr = <<>>
             /\ sStat = EmptyStat
             /\ sLog = <<>>
             /\ sOut = <<>>

SuiteInit == /\ sArgs \in [tests : TestLists, valgrind : BOOLEAN]
             /\ sMain = [pc |-> "setup", tool |-> 1, i |-> 1]
             /\ sThr = <<>>
             /\ sStat = EmptyStat
             /\ sLog = <<>>
             /\ sOut = <<>>

\* stat = manager.dict(); log = manager.list(); threads = []
SuiteSetup ==
    /\ sMain.pc = "setup"
    /\ sMain.tool <= Len(SuiteTools(sArgs))
    /\ sStat' = EmptyStat
    /\ sLog' = <<>>
    /\ sThr' = [k \in 1..Len(sArgs.tests) |-> NewThread]
    /\ sMain' = [sMain EXCEPT !.pc = "start", !.i = 1]
    /\ UNCHANGED <<sArgs, sOut>>
    /\ UNCHANGED notSuite

\* for i in args.tests.split(): t = Thread(...); t.start(); threads.append(t)
SuiteStart ==
    /\ sMain.pc = "start"
    /\ sMain.i <= Len(sArgs.tests)
    /\ sThr' = [sThr EXCEPT ![sMain.i].pc = "running"]
    /\ sMain' = [sMain EXCEPT !.i = @ + 1]
    /\ UNCHANGED <<sArgs, sStat, sLog, sOut>>
    /\ UNCHANGED notSuite

\* the start loop is over
SuiteStarted ==
    /\ sMain.pc = "start"
    /\ sMain.i > Len(sArgs.tests)
    /\ sMain' = [sMain EXCEPT !.pc = "join", !.i = 1]
    /\ UNCHANGED <<sArgs, sThr, sStat, sLog, sOut>>
    /\ UNCHANGED notSuite

\* for t in threads: t.join()
SuiteJoin ==
    /\ sMain.pc = "join"
    /\ sMain.i <= Len(sArgs.tests)
    /\ ThreadFinished(sThr[sMain.i])
    /\ sMain' = [sMain EXCEPT !.i = @ + 1]
    /\ UNCHANGED <<sArgs, sThr, sStat, sLog, sOut>>
    /\ UNCHANGED notSuite

\* print_log(log_file, stat, log): the summary is printed and the log
\* file written; then the next tool, if any
SuitePrintLog ==
    /\ sMain.pc = "join"
    /\ sMain.i > Len(sArgs.tests)
    /\ sOut' = Append(sOut, [tool |-> SuiteTools(sArgs)[sMain.tool],
                             summary |-> Summary(sStat),
                             file |-> sLog])
    /\ sMain' = IF sMain.tool < Len(SuiteTools(sArgs))
                THEN [pc |-> "setup", tool |-> sMain.tool + 1, i |-> 1]
                ELSE [pc |-> "done", tool |-> sMain.tool, i |-> 1]
    /\ UNCHANGED <<sArgs, sThr, sStat, sLog>>
    /\ UNCHANGED notSuite

\* run_test_program in thread k: check_output returns (exit status 0) or
\* raises CalledProcessError; either way the output is appended to log
SuiteThreadRun(k) ==
    /\ sThr[k].pc = "running"
    /\ \E ok \in {0, 1} :
          sThr' = [sThr EXCEPT ![k] = [pc |-> "logged", success |-> ok]]
    /\ sLog' = Append(sLog, k)
    /\ UNCHANGED <<sArgs, sMain, sStat, sOut>>
    /\ UNCHANGED notSuite

\* run_test_program in thread k: stat[test] = success, the result is
\* printed and the thread ends
SuiteThreadStat(k) ==
    /\ sThr[k].pc = "logged"
    /\ sStat' = [sStat EXCEPT ![sArgs.tests[k]] = sThr[k].success]
    /\ sThr' = [sThr EXCEPT ![k].pc = "done"]
    /\ UNCHANGED <<sArgs, sMain, sLog, sOut>>
    /\ UNCHANGED notSuite

SuiteThread == \E k \in 1..Len(sThr) : SuiteThreadRun(k) \/ SuiteThreadStat(k)

SuiteNext ==
    \/ SuiteSetup
    \/ SuiteStart
    \/ SuiteStarted
    \/ SuiteJoin
    \/ SuitePrintLog
    \/ SuiteThread

(***************************************************************************)
(* Claims on the test runner                                               *)
(***************************************************************************)
\* C9: the summary of a pass (of a valgrind tool) is printed, and its log
\* file written, only when every test thread started in that pass has
\* ended.
C9_SummaryAfterJoin ==
    [][sOut' # sOut =>
          /\ \A k \in 1..Len(sThr) : sThr[k].pc = "done"
          /\ Len(sThr) = Len(sArgs.tests)]_vars

\* C9 witness: the summary has been printed for a list of three tests.
C9_Witness ==
    /\ Len(sArgs.tests) = 3
    /\ sArgs.valgrind
    /\ Len(sOut) = 1
    /\ \A k \in 1..3 : sThr[k].pc = "done"

AllDistinct(tests) ==
    \A a, b \in 1..Len(tests) : tests[a] = tests[b] => a = b

SuiteResultsExact ==
    LET out == sOut[Len(sOut)]
        n == Len(sArgs.tests)
    IN  /\ Cardinality({t \in TestNames : sStat[t] # -1}) = n
        /\ \A k \in 1..n : (sStat[sArgs.tests[k]] = 1) <=> (sThr[k].success = 1)
        /\ Len(out.file) = n
        /\ \A k \in 1..n : Cardinality({j \in 1..Len(out.file) : out.file[j] = k}) = 1
        /\ out.summary.total = n
        /\ out.summary.total = out.summary.pass + out.summary.fail

\* C10: once all threads have finished the status map holds exactly one
\* entry per launched test, PASS exactly for the tests whose command
\* exited with status zero, the log holds one entry per launched test and
\* the summary has TOTAL = number of launched tests = SUCCESS + FAIL.
C10_OneResultPerTest == sOut # <<>> => SuiteResultsExact

\* C10 (supporting): the statement of C10 holds of every list of tests in
\* which no name is repeated.
C10_HoldsForDistinctNames ==
    (sOut # <<>> /\ AllDistinct(sArgs.tests)) => SuiteResultsExact

(***************************************************************************)
(* The OIC generators: sol-oic-gen.py and oicgen.py, __main__              *)
(*                                                                         *)
(* A schema directory holds files; file number n stands for the n-th name  *)
(* in lexicographic order.  A file is a schema with one object definition  *)
(* of some property signature, a schema on which the generator raises, or  *)
(* a file whose name is no schema name.  os.listdir returns the names in   *)
(* arbitrary order; the script is run twice on the same directory.         *)
(***************************************************************************)
OicScripts == {"sol-oic-gen.py", "oicgen.py"}

SchemaFiles == 1..MaxSchemas

\* two property sets that props_are_equivalent tells apart
PropSigs == {"p", "q"}

FileKinds == PropSigs \cup {"absent", "other", "raises"}

OicInputs == [script : OicScripts, dir : [SchemaFiles -> FileKinds]]

Present(dir) == {f \in SchemaFiles : dir[f] # "absent"}

\* os.listdir: the names of the directory in arbitrary order
listdir(dir) ==
    {l \in [1..Cardinality(Present(dir)) -> Present(dir)] :
        \A i, j \in DOMAIN l : i # j => l[i] # l[j]}

RECURSIVE SortedSeq(_)
SortedSeq(S) ==
    IF S = {} THEN <<>>
    ELSE LET m == CHOOSE x \in S : \A y \in S : x <= y
         IN  <<m>> \o SortedSeq(S \ {m})

sorted(l) == SortedSeq({l[i] : i \in DOMAIN l})

seems_schema(dir, f) == dir[f] # "other"

\* the generator expression of the for loop: sol-oic-gen.py sorts the
\* listing, oicgen.py takes it as os.listdir returned it
LoopFiles(script, dir, listing) ==
    LET l == IF script = "sol-oic-gen.py" THEN sorted(listing) ELSE listing
    IN  SelectSeq(l, LAMBDA f : seems_schema(dir, f))

\* object_from_repr_vec_fn_common_c: the first struct generated with a
\* given property set gets the decoder, every later equivalent one a
\* wrapper that calls it; equiv is the dict in insertion order
EquivalentOf(equiv, sig) ==
    LET hits == SelectSeq(equiv, LAMBDA e : e.sig = sig)
    IN  IF hits = <<>> THEN 0 ELSE hits[1].name

object_from_repr_vec_fn_common_c(name, sig, equiv) ==
    IF EquivalentOf(equiv, sig) # 0
    THEN [code |-> [struct |-> name, calls |-> EquivalentOf(equiv, sig)],
          equiv |-> equiv]
    ELSE [code |-> [struct |-> name, calls |-> name],
          equiv |-> Append(equiv, [name |-> name, sig |-> sig])]

\* generate_object for the definition of file f: the common C depends on
\* the equivalent dict, the JSON entries only on the definition
generate_object(f, sig, equiv) ==
    LET c == object_from_repr_vec_fn_common_c(f, sig, equiv)
    IN  [entry |-> [c_common |-> c.code, json |-> [rt |-> f, props |-> sig]],
         equiv |-> c.equiv]

master_json_as_string(generated) ==
    [i \in DOMAIN generated |-> generated[i].json]

master_c_as_string(generated) ==
    [i \in DOMAIN generated |-> generated[i].c_common]

NoOicOut == [json |-> <<>>, c |-> <<>>, written |-> FALSE]

OicIdle == /\ oIn = [script |-> "oicgen.py", dir |-> [f \in SchemaFiles |-> "absent"]]
           /\ opc = "idle"
           /\ oList = <<>>
           /\ oEquiv = <<>>
           /\ oGen = <<>>
           /\ oOut = NoOicOut
           /\ oRun = 0
           /\ oFirst = NoOicOut

OicInit == /\ oIn \in OicInputs
           /\ opc = "listdir"
           /\ oList = <<>>
           /\ oEquiv = <<>>
           /\ oGen = <<>>
           /\ oOut = NoOicOut
           /\ oRun = 1
           /\ oFirst = NoOicOut

\* for path in (f for f in [sorted(]os.listdir(dir)[)] if seems_schema(f))
OicListdir ==
    /\ opc = "listdir"
    /\ \E listing \in listdir(oIn.dir) :
          oList' = LoopFiles(oIn.script, oIn.dir, listing)
    /\ opc' = "loop"
    /\ UNCHANGED <<oIn, oEquiv, oGen, oOut, oRun, oFirst, notOic>>

\* one iteration of the loop: generate_for_schema, or its exception ignored
OicGenerate ==
    /\ opc = "loop"
    /\ oList # <<>>
    /\ LET f == Head(oList)
           g == generate_object(f, oIn.dir[f], oEquiv)
       IN  IF oIn.dir[f] = "raises"
           THEN UNCHANGED <<oGen, oEquiv>>
           ELSE /\ oGen' = Append(oGen, g.entry)
                /\ oEquiv' = g.equiv
    /\ oList' = Tail(oList)
    /\ UNCHANGED <<oIn, opc, oOut, oRun, oFirst, notOic>>

\* the two files are written after the loop
OicWrite ==
    /\ opc = "loop"
    /\ oList = <<>>
    /\ oOut' = [json |-> master_json_as_string(oGen),
                c |-> master_c_as_string(oGen), written |-> TRUE]
    /\ opc' = "done"
    /\ UNCHANGED <<oIn, oList, oEquiv, oGen, oRun, oFirst, notOic>>

\* the same command line run again on the same directory
OicRunAgain ==
    /\ opc = "done"
    /\ oRun = 1
    /\ oFirst' = oOut
    /\ oRun' = 2
    /\ opc' = "listdir"
    /\ oList' = <<>>
    /\ oEquiv' = <<>>
    /\ oGen' = <<>>
    /\ oOut' = NoOicOut
    /\ UNCHANGED <<oIn, notOic>>

OicNext == OicListdir \/ OicGenerate \/ OicWrite \/ OicRunAgain

OicBothRunsDone == opc = "done" /\ oRun = 2

\* C11: for the same schema directory contents both generators write the
\* same master JSON and the same C, whatever order os.listdir returns the
\* files in and whichever resource type is generated first.
C11_OicDeterministic == OicBothRunsDone => oOut = oFirst

\* C11 (supporting): sol-oic-gen.py, which sorts the listing, writes the
\* same two files in both runs.
C11_HoldsForSolOicGen ==
    (OicBothRunsDone /\ oIn.script = "sol-oic-gen.py") => oOut = oFirst

(***************************************************************************)
(* sol-flow-node-type-stub-gen.py: __main__ and generate_stub              *)
(***************************************************************************)
\* --force on the command line: not given, given with the empty string,
\* given with any other string ("1", "True", "False", ...)
ForceArgs == {"absent", "empty", "nonempty"}

\* argparse applies type=bool to the string; default=False when not given
ForceValue(arg) == arg = "nonempty"

\* an input description: argparse cannot open it, load_json raises on it,
\* its name has no .json extension, or it is fine
InputKinds == {"unreadable", "invalid", "noext", "ok"}

StubInputs ==
    [force : ForceArgs,
     old : {Absent, <<"old">>},
     inputs_list : SeqsUpTo(InputKinds, MaxInputs) \ {<<>>}]

\* the condition under which __main__ refuses to touch the stub
MustRefuse_Never(exists, force) == FALSE

MustRefuse(exists, force) == exists /\ ~force

\* generate_stub's first loop: load_json and get_base_name per input
FirstBadInput(inputs) ==
    IF \E i \in DOMAIN inputs : inputs[i] # "ok"
    THEN CHOOSE i \in DOMAIN inputs :
            inputs[i] # "ok" /\ \A j \in 1..(i - 1) : inputs[j] = "ok"
    ELSE 0

LoadError(kind) == IF kind = "noext" THEN "StubError" ELSE "ValidationError"

\* what generate_stub writes when every input loaded: the licence and
\* includes, then the declarations of each data item
StubText(inputs) == <<"head">> \o [i \in DOMAIN inputs |-> "item"]

StubIdle == /\ stIn = [force |-> "absent", old |-> Absent, inputs_list |-> <<"ok">>]
            /\ stpc = "idle"
            /\ stFs = Absent
            /\ stExit = [status |-> -1, exc |-> "none"]

StubInit == /\ stIn \in StubInputs
            /\ stpc = "parse_args"
            /\ stFs = stIn.old
            /\ stExit = [status |-> -1, exc |-> "none"]

\* parser.parse_args(): FileType('r') opens every input, a failure is a
\* usage error with status 2
StubParseArgs ==
    /\ stpc = "parse_args"
    /\ IF \E i \in DOMAIN stIn.inputs_list : stIn.inputs_list[i] = "unreadable"
       THEN /\ stpc' = "done"
            /\ stExit' = [status |-> 2, exc |-> "usage"]
       ELSE /\ stpc' = "check"
            /\ UNCHANGED stExit
    /\ UNCHANGED <<stIn, stFs, notStub>>

\* if os.path.exists(args.output_stub) and not args.force: raise StubError
StubCheck ==
    /\ stpc = "check"
    /\ IF MustRefuse(stFs # Absent, ForceValue(stIn.force))
       THEN /\ stpc' = "done"
            /\ stExit' = [status |-> 1, exc |-> "StubError"]
       ELSE /\ stpc' = "open"
            /\ UNCHANGED stExit
    /\ UNCHANGED <<stIn, stFs, notStub>>

\* stub_file = open(args.output_stub, 'w'): creates or truncates
StubOpen ==
    /\ stpc = "open"
    /\ stFs' = <<>>
    /\ stpc' = "generate"
    /\ UNCHANGED <<stIn, stExit, notStub>>

\* generate_stub and the finally clause that closes the file
StubGenerate ==
    /\ stpc = "generate"
    /\ LET bad == FirstBadInput(stIn.inputs_list)
       IN  IF bad # 0
           THEN /\ UNCHANGED stFs
                /\ stExit' = [status |-> 1, exc |-> LoadError(stIn.inputs_list[bad])]
           ELSE /\ stFs' = StubText(stIn.inputs_list)
                /\ stExit' = [status |-> 0, exc |-> "none"]
    /\ stpc' = "done"
    /\ UNCHANGED <<stIn, notStub>>

StubNext == StubParseArgs \/ StubCheck \/ StubOpen \/ StubGenerate

\* C12: without --force an output stub that exists is never created anew,
\* truncated or modified: its content stays what it was in every state of
\* the run, and a run whose command line argparse accepted ends with
\* StubError.
C12_ExistingStubUntouched ==
    (stIn.force = "absent" /\ stIn.old # Absent /\ stpc # "idle") =>
        /\ stFs = stIn.old
        /\ stpc = "done" => \/ stExit.exc = "StubError"
                            \/ stExit.exc = "usage"
        /\ stExit.exc = "usage" =>
              \E i \in DOMAIN stIn.inputs_list : stIn.inputs_list[i] = "unreadable"

\* C12 witness: a run without --force on an existing stub has ended with
\* StubError, the stub as it was.
C12_Witness ==
    /\ stIn.force = "absent" /\ stIn.old # Absent
    /\ stpc = "done" /\ stExit.exc = "StubError" /\ stFs = stIn.old

(***************************************************************************)
(* check-api.py: __main__                                                  *)
(***************************************************************************)
\* "P" stands for a name that starts with SOL_FLOW_PACKET_TYPE_
ApiSymbols == {"a", "b", "P"}

Whitelisted(sym) == sym = "P"

\* two headers of an include directory and a file of another directory
ApiFiles == {"h1", "h2", "x"}

InInclude(f) == f # "x"

\* the symbols the two patterns find, file by file in os.walk order
Declarations == [file : ApiFiles, sym : ApiSymbols]

ApiInputs ==
    [version_script : SeqsUpTo(ApiSymbols, MaxListed),
     decls : SeqsUpTo(Declarations, MaxDecls)]

InList(x, l) == \E i \in DOMAIN l : l[i] = x

\* list.remove(x): drops the first element equal to x
RemoveFirst(l, x) ==
    LET i == CHOOSE k \in DOMAIN l : l[k] = x /\ \A j \in 1..(k - 1) : l[j] # x
    IN  SubSeq(l, 1, i - 1) \o SubSeq(l, i + 1, Len(l))

\* the body of "for exported in exportedSymbols" for one symbol
CheckExported(d, listed, missing) ==
    IF ~InInclude(d.file) \/ Whitelisted(d.sym)
    THEN [listed |-> listed, missing |-> missing]
    ELSE IF ~InList(d.sym, listed)
         THEN [listed |-> listed, missing |-> Append(missing, d)]
         ELSE [listed |-> RemoveFirst(listed, d.sym), missing |-> missing]

ApiIdle == /\ aIn = [version_script |-> <<>>, decls |-> <<>>]
           /\ apc = "idle"
           /\ aI = 0
           /\ aListed = <<>>
           /\ aMissing = <<>>
           /\ aExit = -1

ApiInit == /\ aIn \in ApiInputs
           /\ apc = "read"
           /\ aI = 1
           /\ aListed = <<>>
           /\ aMissing = <<>>
           /\ aExit = -1

\* versionScriptSymbols = re.findall(..., fData.read())
ApiReadVersionScript ==
    /\ apc = "read"
    /\ aListed' = aIn.version_script
    /\ apc' = "walk"
    /\ UNCHANGED <<aIn, aI, aMissing, aExit, notApi>>

\* one exported symbol of one file of the walk
ApiCheckExported ==
    /\ apc = "walk"
    /\ aI <= Len(aIn.decls)
    /\ LET r == CheckExported(aIn.decls[aI], aListed, aMissing)
       IN  /\ aListed' = r.listed
           /\ aMissing' = r.missing
    /\ aI' = aI + 1
    /\ UNCHANGED <<aIn, apc, aExit, notApi>>

\* after the walk: the two reports, then sys.exit(-1) or sys.exit(0)
ApiReport ==
    /\ apc = "walk"
    /\ aI > Len(aIn.decls)
    /\ aExit' = IF Len(aMissing) # 0 \/ Len(aListed) # 0 THEN 255 ELSE 0
    /\ apc' = "done"
    /\ UNCHANGED <<aIn, aI, aListed, aMissing, notApi>>

ApiNext == ApiReadVersionScript \/ ApiCheckExported \/ ApiReport

\* the symbols the headers of the include directories declare, whitelist apart
DeclaredSyms ==
    {aIn.decls[i].sym : i \in {k \in DOMAIN aIn.decls :
        InInclude(aIn.decls[k].file) /\ ~Whitelisted(aIn.decls[k].sym)}}

ListedSyms == {aIn.version_script[i] : i \in DOMAIN aIn.version_script}

ApiExact ==
    /\ aExit = 0 <=> (DeclaredSyms \subseteq ListedSyms /\ ListedSyms \subseteq DeclaredSyms)
    /\ \A i \in DOMAIN aMissing : aMissing[i].sym \notin ListedSyms

NoRepeats(l) == \A i, j \in DOMAIN l : i # j => l[i] # l[j]

\* C13: check-api.py exits 0 exactly when every symbol declared in the
\* headers of the include directories (whitelist apart) is listed in the
\* version script and every listed symbol is declared; a declared symbol
\* that is listed is never reported as missing, however often declared.
C13_ExitStatusExact == apc = "done" => ApiExact

\* C13 (supporting): the statement holds of the inputs in which no symbol
\* is declared twice and the version script lists no symbol twice and no
\* whitelisted symbol.
C13_HoldsWithoutRepeats ==
    (/\ apc = "done"
     /\ NoRepeats([i \in DOMAIN aIn.decls |-> aIn.decls[i].sym])
     /\ NoRepeats(aIn.version_script)
     /\ "P" \notin ListedSyms) => ApiExact

(***************************************************************************)
(* check-samples-dependencies.py: one sample directory of the walk         *)
(***************************************************************************)
FbpNames == {"f1.fbp", "f2.fbp"}

NodeTypes == {"n"}

\* samplesData has no entry for an FBP that is no target of the Makefile
NoData == {"no entry"}

\* an FBP file: the node types it uses (declared names removed), the FBPs
\* it DECLAREs as sub-flows, and the dependencies its Kconfig entry declares
FbpFilesData ==
    [nodes : SUBSET NodeTypes,
     declares : SUBSET FbpNames,
     deps : (SUBSET NodeTypes) \cup {NoData}]

SampInputs ==
    [tree : [FbpNames -> FbpFilesData],
     files : {l \in [1..Cardinality(FbpNames) -> FbpNames] :
                 \A i, j \in DOMAIN l : i # j => l[i] # l[j]},
     hasMakefile : BOOLEAN,
     blackList : SUBSET FbpNames]

\* a chain of calls longer than the number of FBP files repeats a file and
\* so never ends: Python raises RecursionError
RecursionLimit == Cardinality(FbpNames)

\* extraFbps of getNodeData, in the order of the DECLARE lines
RECURSIVE extraFbps(_)
extraFbps(S) ==
    IF S = {} THEN <<>>
    ELSE LET f == CHOOSE x \in S : \A y \in S : (x = "f1.fbp" \/ y # "f1.fbp")
         IN  <<f>> \o extraFbps(S \ {f})

\* hasDep for every node type of the file
MissingNodes(nodes, deps) == nodes \ deps

RECURSIVE checkFbpDeps(_, _, _, _)
checkFbpDeps(st, fbpFiles, tree, depth) ==
    IF fbpFiles = <<>> \/ st.crashed THEN st
    ELSE LET fbp == Head(fbpFiles)
         IN  IF st.samplesData[fbp] = NoData
             THEN checkFbpDeps(st, Tail(fbpFiles), tree, depth)
             ELSE LET children == extraFbps(tree[fbp].declares)
                      st1 == [st EXCEPT
                                !.checked = @ \cup {fbp},
                                !.samplesData =
                                    [f \in FbpNames |->
                                       IF \E i \in DOMAIN children : children[i] = f
                                       THEN st.samplesData[fbp]
                                       ELSE st.samplesData[f]]]
                      st2 == IF children = <<>> THEN st1
                             ELSE IF depth >= RecursionLimit
                                  THEN [st1 EXCEPT !.crashed = TRUE]
                                  ELSE checkFbpDeps(st1, children, tree, depth + 1)
                      missing == MissingNodes(tree[fbp].nodes, st2.samplesData[fbp])
                      st3 == IF st2.crashed \/ missing = {} THEN st2
                             ELSE [st2 EXCEPT !.missing_deps = @ \cup {fbp}]
                  IN  checkFbpDeps(st3, Tail(fbpFiles), tree, depth)

NoSampState ==
    [samplesData |-> [f \in FbpNames |-> NoData], checked |-> {},
     missing_deps |-> {}, crashed |-> FALSE]

SampIdle == /\ smIn = [tree |-> [f \in FbpNames |->
                                   [nodes |-> {}, declares |-> {}, deps |-> NoData]],
                       files |-> <<>>, hasMakefile |-> FALSE, blackList |-> {}]
            /\ smpc = "idle"
            /\ smFiles = <<>>
            /\ smSt = NoSampState
            /\ smMk = FALSE
            /\ smExit = -1

SampInit == /\ smIn \in SampInputs
            /\ smpc = "walk"
            /\ smFiles = <<>>
            /\ smSt = NoSampState
            /\ smMk = FALSE
            /\ smExit = -1

\* fbpFiles = the .fbp files of the directory that are not in blackList;
\* none: continue.  getSamplesData, or the directory noted as lacking its
\* Makefile/Kconfig
SampWalk ==
    /\ smpc = "walk"
    /\ LET fbpFiles == SelectSeq(smIn.files, LAMBDA f : f \notin smIn.blackList)
       IN  IF fbpFiles = <<>>
           THEN /\ smpc' = "report"
                /\ UNCHANGED <<smFiles, smSt, smMk>>
           ELSE IF ~smIn.hasMakefile
                THEN /\ smMk' = TRUE
                     /\ smpc' = "report"
                     /\ UNCHANGED <<smFiles, smSt>>
                ELSE /\ smFiles' = fbpFiles
                     /\ smSt' = [smSt EXCEPT !.samplesData =
                                    [f \in FbpNames |-> smIn.tree[f].deps]]
                     /\ smpc' = "check"
                     /\ UNCHANGED smMk
    /\ UNCHANGED <<smIn, smExit, notSamp>>

\* checkFbpDeps(root, samplesData, fbpFiles), one file of the list per step
SampCheck ==
    /\ smpc = "check"
    /\ smFiles # <<>>
    /\ ~smSt.crashed
    /\ smSt' = checkFbpDeps(smSt, <<Head(smFiles)>>, smIn.tree, 1)
    /\ smFiles' = Tail(smFiles)
    /\ UNCHANGED <<smIn, smpc, smMk, smExit, notSamp>>

\* RecursionError leaves __main__ uncaught: status 1
SampCrash ==
    /\ smpc = "check"
    /\ smSt.crashed
    /\ smExit' = 1
    /\ smpc' = "done"
    /\ UNCHANGED <<smIn, smFiles, smSt, smMk, notSamp>>

SampChecked ==
    /\ smpc = "check"
    /\ smFiles = <<>>
    /\ ~smSt.crashed
    /\ smpc' = "report"
    /\ UNCHANGED <<smIn, smFiles, smSt, smMk, smExit, notSamp>>

\* the two reports and sys.exit
SampReport ==
    /\ smpc = "report"
    /\ smExit' = IF smMk \/ smSt.missing_deps # {} THEN 255 ELSE 0
    /\ smpc' = "done"
    /\ UNCHANGED <<smIn, smFiles, smSt, smMk, notSamp>>

SampNext == SampWalk \/ SampCheck \/ SampCrash \/ SampChecked \/ SampReport

SkippedUntouched ==
    \A f \in smIn.blackList : f \notin smSt.checked /\ f \notin smSt.missing_deps

SampExitExact ==
    smExit = 0 <=> (~smMk /\ \A f \in smSt.checked :
                       MissingNodes(smIn.tree[f].nodes, smSt.samplesData[f]) = {})

\* C14: an FBP named in the skip list is never dependency-checked and never
\* reported under missing deps, whatever other FBPs exist (also FBPs that
\* DECLARE it as a sub-flow); the script exits 0 exactly when no sample
\* directory lacks its Makefile/Kconfig and no checked FBP uses a node type
\* without a declared dependency.
C14_SkipListHonoured ==
    /\ SkippedUntouched
    /\ smpc = "done" => SampExitExact

\* C14 (supporting): the statement holds of the sample trees in which no
\* FBP DECLAREs a sub-flow.
C14_HoldsWithoutSubFlows ==
    (\A f \in FbpNames : smIn.tree[f].declares = {}) =>
        (SkippedUntouched /\ (smpc = "done" => SampExitExact))

(***************************************************************************)
(* template.py: load_context, try_subst and run_template                   *)
(***************************************************************************)
\* one variable name in its two spellings
TplKeys == {"name", "NAME"}

\* str.lower()
lower(k) == IF k = "NAME" THEN "name" ELSE k

\* values as strings of characters; q is the double quote
TplValues == {<<"a">>, <<"b">>, <<"q", "a", "q">>}

\* a key without a value
NotSet == <<"not set">>

\* a context file: no line, or one line KEY=value
ContextFiles == SeqsUpTo([key : TplKeys, value : TplValues], 1)

\* os.environ
Environments == [TplKeys -> TplValues \cup {NotSet}]

\* the template is the one expression {{@KEY@}}
TplInputs ==
    [context_files : SeqsUpTo(ContextFiles, MaxCtxFiles) \ {<<>>},
     environ : Environments,
     template : TplKeys]

EmptyDict == [k \in TplKeys |-> NotSet]

\* configparser stores the option names in lower case; dc.items() of one
\* file, put over the result so far
ReadContextFile(result, f) ==
    IF f = <<>> THEN result
    ELSE [result EXCEPT ![lower(f[1].key)] = f[1].value]

\* for k,v in os.environ.items(): result[k] = v
ReadEnviron(result, environ) ==
    [k \in TplKeys |-> IF environ[k] # NotSet THEN environ[k] ELSE result[k]]

\* the text between {{ and }} of the expression for a key
Verbatim(key) == <<"@", key, "@">>

\* try_subst: None (here <<>>) unless the text starts and ends with @,
\* else the text with every @ removed
try_subst(verbatim) ==
    IF Len(verbatim) >= 2 /\ verbatim[1] = "@" /\ verbatim[Len(verbatim)] = "@"
    THEN SelectSeq(verbatim, LAMBDA c : c # "@")
    ELSE <<>>

\* str.replace("\"", "")
Unquote(v) == SelectSeq(v, LAMBDA c : c # "q")

\* run_template on {{@KEY@}}: context.get(subst.lower(), "") without quotes
run_template(raw, context) ==
    LET subst == try_subst(raw)
        v == context[lower(subst[1])]
    IN  IF subst = <<>> THEN raw
        ELSE IF v = NotSet THEN <<>> ELSE Unquote(v)

TplIdle == /\ tIn = [context_files |-> <<<<>>>>, environ |-> EmptyDict, template |-> "name"]
           /\ tpc = "idle"
           /\ tI = 0
           /\ tCtx = EmptyDict
           /\ tOut = NotSet

TplInit == /\ tIn \in TplInputs
           /\ tpc = "files"
           /\ tI = 1
           /\ tCtx = EmptyDict
           /\ tOut = NotSet

\* load_context: one context file
TplReadFile ==
    /\ tpc = "files"
    /\ tI <= Len(tIn.context_files)
    /\ tCtx' = ReadContextFile(tCtx, tIn.context_files[tI])
    /\ tI' = tI + 1
    /\ UNCHANGED <<tIn, tpc, tOut, notTpl>>

\* load_context: the environment, after the files
TplReadEnviron ==
    /\ tpc = "files"
    /\ tI > Len(tIn.context_files)
    /\ tCtx' = ReadEnviron(tCtx, tIn.environ)
    /\ tpc' = "run"
    /\ UNCHANGED <<tIn, tI, tOut, notTpl>>

\* output = run_template(...); args.output.write(output)
TplRun ==
    /\ tpc = "run"
    /\ tOut' = run_template(Verbatim(tIn.template), tCtx)
    /\ tpc' = "done"
    /\ UNCHANGED <<tIn, tI, tCtx, notTpl>>

TplNext == TplReadFile \/ TplReadEnviron \/ TplRun

\* the value of the last context file that has a line for the key
RECURSIVE LastFileValue(_)
LastFileValue(files) ==
    IF files = <<>> THEN NotSet
    ELSE IF files[Len(files)] # <<>> THEN files[Len(files)][1].value
         ELSE LastFileValue(SubSeq(files, 1, Len(files) - 1))

TplExpected ==
    LET k == tIn.template
    IN  IF tIn.environ[k] # NotSet THEN Unquote(tIn.environ[k])
        ELSE IF \A e \in TplKeys : tIn.environ[e] = NotSet
             THEN IF LastFileValue(tIn.context_files) = NotSet THEN <<>>
                  ELSE Unquote(LastFileValue(tIn.context_files))
             ELSE tOut

\* C15: for every environment variable NAME that is set, {{@NAME@}} is
\* replaced by the variable's value without its double quotes, also when a
\* context file has a value for the same key; without the variable the
\* value of the last context file that has the key is taken.
C15_EnvironInContext == tpc = "done" => tOut = TplExpected

\* C15 (supporting): the statement holds of the expressions whose name is
\* in lower case.
C15_HoldsForLowerCaseNames ==
    (tpc = "done" /\ tIn.template = lower(tIn.template)) => tOut = TplExpected

(***************************************************************************)
(* The OIC client glue that sol-oic-gen.py emits (master_c_as_string):     *)
(* one client_resource, the main loop's timers and the discovery requests  *)
(* of the OIC client.  A timer whose callback returns false is removed by  *)
(* the main loop, one whose callback returns true stays armed; a discovery *)
(* request whose callback returns false is finished.  The three multicast  *)
(* addresses of find_resources are one request here; the scan port is not  *)
(* part of the model.                                                      *)
(***************************************************************************)
NULL == 0

TimerIds == 1..MaxTimers

PendingIds == 1..MaxPending

\* sol_timeout_add, sol_oic_client_find_resources: a handle that is not in
\* use, NULL when there is none
NewHandle(ids, used) ==
    IF ids \ used = {} THEN NULL
    ELSE CHOOSE h \in ids \ used : \A g \in ids \ used : h <= g

\* client_resource_init
InitClientResource ==
    [resource |-> NULL, find_timeout |-> NULL, update_schedule_timeout |-> NULL,
     discover_pending |-> NULL]

NoTimers == [find |-> {}, update |-> {}, pending |-> {}]

NoEvent == [op |-> "none", resBefore |-> FALSE, sent |-> FALSE, timer |-> NULL]

\* find_resources(resource, found_resource, false): the request pending
\* is cancelled, a new one is made
find_resources(res, loop) ==
    LET live == loop.pending \ {res.discover_pending}
        p == NewHandle(PendingIds, live)
    IN  [res |-> [res EXCEPT !.discover_pending = p],
         loop |-> [loop EXCEPT !.pending = IF p = NULL THEN live ELSE live \cup {p}]]

\* send_discovery_packets
send_discovery_packets(res, loop) ==
    IF res.resource # NULL
    THEN [res |-> res, loop |-> loop, sent |-> FALSE]
    ELSE [res |-> find_resources(res, loop).res,
          loop |-> find_resources(res, loop).loop, sent |-> TRUE]

\* a find timer that goes on sending whatever the resource is
find_timer_KeepsSending(res, loop) ==
    [res |-> find_resources(res, loop).res,
     loop |-> find_resources(res, loop).loop, sent |-> TRUE, keep |-> TRUE]

\* find_timer: the callback of the find timer
find_timer(res, loop) ==
    IF res.resource # NULL
    THEN [res |-> [res EXCEPT !.find_timeout = NULL], loop |-> loop,
          sent |-> FALSE, keep |-> FALSE]
    ELSE [res |-> send_discovery_packets(res, loop).res,
          loop |-> send_discovery_packets(res, loop).loop,
          sent |-> send_discovery_packets(res, loop).sent, keep |-> TRUE]

\* what a discovery request reports to found_resource: the timeout of the
\* request, a resource of another device, or the resource looked for
Discoveries == {"timeout", "other", "match"}

\* found_resource: the label cancel clears find_timeout and
\* discover_pending without sol_timeout_del
found_resource(res, oic_res) ==
    LET cancel(r) == [r EXCEPT !.find_timeout = NULL, !.discover_pending = NULL]
    IN  IF oic_res = "timeout" THEN [res |-> cancel(res), keep |-> FALSE]
        ELSE IF res.resource # NULL THEN [res |-> cancel(res), keep |-> FALSE]
        ELSE IF oic_res = "other" THEN [res |-> res, keep |-> TRUE]
        ELSE [res |-> cancel([res EXCEPT !.resource = 1]), keep |-> FALSE]

\* client_connect with a device id of 32 characters
client_connect(res, loop) ==
    LET find1 == IF res.find_timeout # NULL THEN loop.find \ {res.find_timeout}
                 ELSE loop.find
        res1 == [res EXCEPT !.resource = NULL]
        t == NewHandle(TimerIds, find1)
        res2 == [res1 EXCEPT !.find_timeout = t]
        loop2 == [loop EXCEPT !.find = IF t = NULL THEN find1 ELSE find1 \cup {t}]
    IN  IF t # NULL THEN send_discovery_packets(res2, loop2)
        ELSE [res |-> res2, loop |-> loop2, sent |-> FALSE]

\* client_resource_schedule_update
client_resource_schedule_update(res, loop) ==
    IF res.update_schedule_timeout # NULL THEN [res |-> res, loop |-> loop]
    ELSE LET t == NewHandle(TimerIds, loop.update)
         IN  [res |-> [res EXCEPT !.update_schedule_timeout = t],
              loop |-> [loop EXCEPT !.update = IF t = NULL THEN @ ELSE @ \cup {t}]]

\* client_resource_perform_update; sends tells whether the request could
\* be made and sent
client_resource_perform_update(res, sends) ==
    IF res.resource = NULL THEN [res |-> [res EXCEPT !.update_schedule_timeout = NULL],
                                 keep |-> FALSE]
    ELSE IF ~sends THEN [res |-> res, keep |-> TRUE]
    ELSE [res |-> [res EXCEPT !.update_schedule_timeout = NULL], keep |-> FALSE]

\* client_resource_close: sol_timeout_del of the two handles, pending_free
client_resource_close(res, loop) ==
    [find |-> loop.find \ {res.find_timeout},
     update |-> loop.update \ {res.update_schedule_timeout},
     pending |-> loop.pending \ {res.discover_pending}]

ClientIdle == /\ cRes = InitClientResource
              /\ cLoop = NoTimers
              /\ cOpen = "idle"
              /\ cEv = NoEvent

\* <struct>_open before its call of client_connect
ClientInit == /\ cRes = InitClientResource
              /\ cLoop = NoTimers
              /\ cOpen = "open"
              /\ cEv = NoEvent

\* <struct>_open and device_id_process: client_connect
ClientConnect ==
    /\ cOpen = "open"
    /\ \E valid \in BOOLEAN :
          IF valid
          THEN LET r == client_connect(cRes, cLoop)
               IN  /\ cRes' = r.res
                   /\ cLoop' = r.loop
                   /\ cEv' = [op |-> "client_connect", resBefore |-> cRes.resource # NULL,
                              sent |-> r.sent, timer |-> NULL]
          ELSE /\ cEv' = [op |-> "client_connect", resBefore |-> cRes.resource # NULL,
                          sent |-> FALSE, timer |-> NULL]
               /\ UNCHANGED <<cRes, cLoop>>
    /\ UNCHANGED <<cOpen, notCli>>

\* a find timer of the main loop expires
ClientFindTimer ==
    /\ cOpen = "open"
    /\ \E t \in cLoop.find :
          LET r == find_timer(cRes, cLoop)
          IN  /\ cRes' = r.res
              /\ cLoop' = [r.loop EXCEPT !.find = IF r.keep THEN @ ELSE @ \ {t}]
              /\ cEv' = [op |-> "find_timer", resBefore |-> cRes.resource # NULL,
                         sent |-> r.sent, timer |-> t]
    /\ UNCHANGED <<cOpen, notCli>>

\* a discovery request calls found_resource
ClientFoundResource ==
    /\ cOpen = "open"
    /\ \E p \in cLoop.pending, oic_res \in Discoveries :
          LET r == found_resource(cRes, oic_res)
          IN  /\ cRes' = r.res
              /\ cLoop' = [cLoop EXCEPT !.pending = IF r.keep THEN @ ELSE @ \ {p}]
              /\ cEv' = [op |-> "found_resource", resBefore |-> cRes.resource # NULL,
                         sent |-> FALSE, timer |-> NULL]
    /\ UNCHANGED <<cOpen, notCli>>

\* a setter of the node changed the state
ClientSetter ==
    /\ cOpen = "open"
    /\ LET r == client_resource_schedule_update(cRes, cLoop)
       IN  /\ cRes' = r.res
           /\ cLoop' = r.loop
    /\ cEv' = [op |-> "schedule_update", resBefore |-> cRes.resource # NULL,
               sent |-> FALSE, timer |-> NULL]
    /\ UNCHANGED <<cOpen, notCli>>

\* the update timer expires
ClientPerformUpdate ==
    /\ cOpen = "open"
    /\ \E t \in cLoop.update, sends \in BOOLEAN :
          LET r == client_resource_perform_update(cRes, sends)
          IN  /\ cRes' = r.res
              /\ cLoop' = [cLoop EXCEPT !.update = IF r.keep THEN @ ELSE @ \ {t}]
              /\ cEv' = [op |-> "perform_update", resBefore |-> cRes.resource # NULL,
                         sent |-> FALSE, timer |-> t]
    /\ UNCHANGED <<cOpen, notCli>>

\* <struct>_close
ClientClose ==
    /\ cOpen = "open"
    /\ cLoop' = client_resource_close(cRes, cLoop)
    /\ cOpen' = "closed"
    /\ cEv' = [op |-> "close", resBefore |-> cRes.resource # NULL,
               sent |-> FALSE, timer |-> NULL]
    /\ UNCHANGED <<cRes, notCli>>

ClientNext ==
    \/ ClientConnect
    \/ ClientFindTimer
    \/ ClientFoundResource
    \/ ClientSetter
    \/ ClientPerformUpdate
    \/ ClientClose

C18_TimersTracked ==
    /\ Cardinality(cLoop.find) <= 1
    /\ cRes.find_timeout = NULL => cLoop.find = {}
    /\ cOpen = "closed" => (cLoop.find = {} /\ cLoop.update = {})

\* C18 (supporting): the update timer is tracked exactly: at most one is
\* armed, update_schedule_timeout is NULL exactly when none is while the
\* node is open, and none is armed after client_resource_close.
C18_UpdateTimerTracked ==
    /\ Cardinality(cLoop.update) <= 1
    /\ cOpen = "open" => (cRes.update_schedule_timeout = NULL <=> cLoop.update = {})
    /\ cOpen = "closed" => cLoop.update = {}

(***************************************************************************)
(* The OIC server glue that sol-oic-gen.py emits: one server_resource with *)
(* a state of one property, and the update timers of the main loop         *)
(***************************************************************************)
\* the values of the property; a request can also carry one that does not
\* decode
PropValues == {0, 1}

BadValue == 2

\* how server_resource_perform_update ends: no notification could be
\* made, to_repr_vec failed, sol_oic_server_notify failed, or notified
UpdateOutcomes == {"no_notification", "to_repr_vec_failed", "notify_failed", "notified"}

\* server_resource_init; from_repr_vec is NULL when every property is
\* read-only
InitServerResource(hasFromRepr) ==
    [update_schedule_timeout |-> NULL, from_repr_vec |-> hasFromRepr, state |-> 0]

NoServerEvent ==
    [op |-> "none", scheduled |-> FALSE, armedBefore |-> FALSE, early |-> FALSE,
     code |-> "none"]

\* server_resource_schedule_update
server_resource_schedule_update(res, armed) ==
    IF res.update_schedule_timeout # NULL THEN [res |-> res, armed |-> armed]
    ELSE LET t == NewHandle(TimerIds, armed)
         IN  [res |-> [res EXCEPT !.update_schedule_timeout = t],
              armed |-> IF t = NULL THEN armed ELSE armed \cup {t}]

\* server_resource_perform_update: the callback returns false on every
\* path, and clears the handle on the last one only
server_resource_perform_update(res, outcome) ==
    IF outcome \in {"no_notification", "to_repr_vec_failed"}
    THEN [res |-> res, keep |-> FALSE, early |-> TRUE]
    ELSE [res |-> [res EXCEPT !.update_schedule_timeout = NULL], keep |-> FALSE,
          early |-> FALSE]

\* server_handle_update for a request that carries value v
server_handle_update(res, armed, v) ==
    IF ~res.from_repr_vec
    THEN [res |-> res, armed |-> armed, scheduled |-> FALSE, code |-> "NOT_IMPLEMENTED"]
    ELSE IF v = BadValue
    THEN [res |-> res, armed |-> armed, scheduled |-> FALSE, code |-> "PRECONDITION_FAILED"]
    ELSE IF v = res.state
    THEN [res |-> res, armed |-> armed, scheduled |-> FALSE, code |-> "OK"]
    ELSE LET s == server_resource_schedule_update([res EXCEPT !.state = v], armed)
         IN  [res |-> s.res, armed |-> s.armed, scheduled |-> TRUE, code |-> "CHANGED"]

\* <struct>_set_<field> for a number, integer or boolean property
server_set_field(res, armed, v) ==
    IF v = res.state THEN [res |-> res, armed |-> armed, scheduled |-> FALSE]
    ELSE LET s == server_resource_schedule_update([res EXCEPT !.state = v], armed)
         IN  [res |-> s.res, armed |-> s.armed, scheduled |-> TRUE]

ServerIdle == /\ svRes = InitServerResource(FALSE)
              /\ svArmed = {}
              /\ svOpen = "idle"
              /\ svNotified = <<>>
              /\ svEv = NoServerEvent

ServerInit == /\ \E hasFromRepr \in BOOLEAN : svRes = InitServerResource(hasFromRepr)
              /\ svArmed = {}
              /\ svOpen = "open"
              /\ svNotified = <<>>
              /\ svEv = NoServerEvent

\* a packet on an input port of the node
ServerSetter ==
    /\ svOpen = "open"
    /\ \E v \in PropValues :
          LET r == server_set_field(svRes, svArmed, v)
          IN  /\ svRes' = r.res
              /\ svArmed' = r.armed
              /\ svEv' = [op |-> "set", scheduled |-> r.scheduled,
                         armedBefore |-> svArmed # {}, early |-> svEv.early,
                         code |-> "none"]
    /\ UNCHANGED <<svOpen, svNotified, notSrv>>

\* a PUT or POST request
ServerHandleUpdate ==
    /\ svOpen = "open"
    /\ \E v \in PropValues \cup {BadValue} :
          LET r == server_handle_update(svRes, svArmed, v)
          IN  /\ svRes' = r.res
              /\ svArmed' = r.armed
              /\ svEv' = [op |-> "handle_update", scheduled |-> r.scheduled,
                         armedBefore |-> svArmed # {}, early |-> svEv.early,
                         code |-> r.code]
    /\ UNCHANGED <<svOpen, svNotified, notSrv>>

\* the update timer expires
ServerPerformUpdate ==
    /\ svOpen = "open"
    /\ \E t \in svArmed, outcome \in UpdateOutcomes :
          LET r == server_resource_perform_update(svRes, outcome)
          IN  /\ svRes' = r.res
              /\ svArmed' = IF r.keep THEN svArmed ELSE svArmed \ {t}
              /\ svNotified' = IF outcome = "notified" THEN <<svRes.state>> ELSE svNotified
              /\ svEv' = [op |-> "perform_update", scheduled |-> FALSE,
                         armedBefore |-> TRUE, early |-> svEv.early \/ r.early,
                         code |-> "none"]
    /\ UNCHANGED <<svOpen, notSrv>>

\* <struct>_close: server_resource_close deletes the timer of the handle
ServerClose ==
    /\ svOpen = "open"
    /\ svArmed' = svArmed \ {svRes.update_schedule_timeout}
    /\ svOpen' = "closed"
    /\ svEv' = [svEv EXCEPT !.op = "close", !.scheduled = FALSE, !.code = "none"]
    /\ UNCHANGED <<svRes, svNotified, notSrv>>

ServerNext == ServerSetter \/ ServerHandleUpdate \/ ServerPerformUpdate \/ ServerClose

UpdateHandleExact ==
    /\ Cardinality(svArmed) <= 1
    /\ svOpen = "open" => (svRes.update_schedule_timeout # NULL <=> svArmed # {})
    /\ (svEv.scheduled /\ ~svEv.armedBefore) => svArmed # {}

\* C17: across setter calls, update requests and timer expiries,
\* update_schedule_timeout is non-NULL exactly when an update timer is
\* armed, at most one is armed, and a call of
\* server_resource_schedule_update made while none is armed arms one.
C17_UpdateHandleExact == UpdateHandleExact

\* C17 (supporting): the statement holds as long as no expiry ended before
\* the notification was built.
C17_HoldsWhileNotificationsBuilt == ~svEv.early => UpdateHandleExact

\* ---------------------------------------------------------------------
\* sol-oic-gen.py: the generated <state>_from_repr_vec decoders, the
\* decode mask of the server wrappers and the update request (SpecRepr)
\* ---------------------------------------------------------------------

\* -EINVAL is what RETURN_ERROR stores in ret
EINVAL == 22

\* decode_mask is a uint32_t
MaskWidth == 32

\* the items of the one enumerated property, in the order of its table
EnumItems == <<"off", "on">>

\* re.sub(r'[\W]+', '_', name) on the names above
remove_special_chars(name) == IF name = "a-b" THEN "a_b" ELSE name

\* get_type_from_property: the 'type' of the property, or 'enum:' and the
\* joined items when it has none
get_type_from_property(prop) == prop.type

\* the strings '%s %s' % (type, name) of type_value in ascending order, as
\* Python compares them ('-' < 'B' < '_', 'e' < 'i')
TypeValueOrder == << [type |-> "enum:off,on", name |-> "mode"],
                     [type |-> "integer", name |-> "a-b"],
                     [type |-> "integer", name |-> "aB"],
                     [type |-> "integer", name |-> "a_b"] >>

\* the integer properties of a schema, by their names in the schema: no
\* two names of a set are the same after remove_special_chars
IntNameSets == {{"a-b", "aB"}, {"aB", "a_b"}, {"aB"}}

\* the properties load_json_schema returns for one resource type: ro are
\* the names whose description starts with 'ReadOnly,'
SchemaProps(ns, ro, mode) ==
    {[name |-> n, type |-> "integer", read_only |-> n \in ro] : n \in ns}
    \cup (IF mode = "absent" THEN {}
          ELSE {[name |-> "mode", type |-> "enum:off,on", read_only |-> mode = "ro"]})

Schemas == UNION {{SchemaProps(ns, ro, m) : ro \in SUBSET ns, m \in {"absent", "rw", "ro"}}
                  : ns \in IntNameSets}

\* the resource type generated first: its read_only flags play no part in
\* the common decoder, so they are left false
FirstSchemas == UNION {{SchemaProps(ns, {}, m) : m \in {"absent", "rw"}} : ns \in IntNameSets}

\* generate_object: the properties sorted by type_value of the name in the
\* schema, then keyed by the cleaned name
new_props(props) ==
    LET inOrder == SelectSeq(TypeValueOrder,
                     LAMBDA tv : \E p \in props : p.name = tv.name /\ get_type_from_property(p) = tv.type)
    IN  [i \in DOMAIN inOrder |->
            LET p == CHOOSE q \in props : q.name = inOrder[i].name
            IN  [name |-> remove_special_chars(p.name), type |-> p.type,
                 read_only |-> p.read_only]]

\* props_are_equivalent: the dicts name -> type are equal
props_are_equivalent(p1, p2) ==
    {<<p1[i].name, get_type_from_property(p1[i])>> : i \in DOMAIN p1}
        = {<<p2[i].name, get_type_from_property(p2[i])>> : i \in DOMAIN p2}

\* a mask is the set of the ids of its bits; a uint32_t holds bits 0..31
MaskBits == 0 .. MaskWidth - 1

\* decode_mask & (1<<id)
BitSet(mask, id) == id \in mask

\* decode_mask &= ~(1<<id)
ClearBit(mask, id) == mask \ {id}

\* object_from_repr_vec_fn_server_c: the mask of the server wrapper, a bit
\* for each property that is not read-only, passed as a uint32_t
object_from_repr_vec_fn_server_c(props) ==
    {i - 1 : i \in {j \in DOMAIN props : ~props[j].read_only}} \cap MaskBits

\* object_from_repr_vec_fn_client_c passes ~0
object_from_repr_vec_fn_client_c == MaskBits

\* object_fields_from_repr_vec: the decoder of the property with each id,
\* get_field_enum_client_c or get_field_integer_client_c
object_fields_from_repr_vec(props) ==
    [i \in DOMAIN props |-> [id |-> i - 1, field_name |-> props[i].name,
                             enum |-> props[i].type # "integer"]]

\* sol_str_table_lookup_fallback(tbl, slice, -1)
sol_str_table_lookup_fallback(slice) ==
    IF \E k \in DOMAIN EnumItems : EnumItems[k] = slice
    THEN (CHOOSE k \in DOMAIN EnumItems : EnumItems[k] = slice) - 1
    ELSE -1

\* get_field_integer_client_c, the body under the matching 'if'
get_field_integer_client_c(field) ==
    IF field.type \in {"UINT", "INT", "SIMPLE"}
    THEN [err |-> FALSE, value |-> field.v_int]
    ELSE [err |-> TRUE, value |-> 0]

\* get_field_enum_client_c, the body under the matching 'if'
get_field_enum_client_c(field) ==
    IF field.type # "TEXT_STRING" THEN [err |-> TRUE, value |-> 0]
    ELSE IF sol_str_table_lookup_fallback(field.v_slice) < 0 THEN [err |-> TRUE, value |-> 0]
    ELSE [err |-> FALSE, value |-> sol_str_table_lookup_fallback(field.v_slice)]

\* one turn of SOL_OIC_MAP_LOOP: the first decoder whose bit is set and
\* whose key is the field's decodes it into fields and clears its bit
DecodeField(decoders, fields, mask, field) ==
    LET hits == SelectSeq(decoders,
                    LAMBDA d : BitSet(mask, d.id) /\ d.field_name = field.key)
    IN  IF hits = <<>> THEN [err |-> FALSE, fields |-> fields, mask |-> mask]
        ELSE LET d == hits[1]
                 r == IF d.enum THEN get_field_enum_client_c(field)
                      ELSE get_field_integer_client_c(field)
             IN  IF r.err THEN [err |-> TRUE, fields |-> fields, mask |-> mask]
                 ELSE [err |-> FALSE, fields |-> [fields EXCEPT ![d.id + 1] = r.value],
                       mask |-> ClearBit(mask, d.id)]

RECURSIVE MapLoop(_, _, _, _, _)
MapLoop(decoders, fields, mask, repr_vec, i) ==
    IF i > Len(repr_vec) THEN [err |-> FALSE, fields |-> fields]
    ELSE LET r == DecodeField(decoders, fields, mask, repr_vec[i])
         IN  IF r.err THEN [err |-> TRUE, fields |-> r.fields]
             ELSE MapLoop(decoders, r.fields, r.mask, repr_vec, i + 1)

\* check_updated_int32
check_updated_int32(a, b) == a # b

\* what the update_state block would do without the two jumps over it
update_state_Unguarded(state, fields, reached) ==
    [i \in DOMAIN state |-> IF check_updated_int32(state[i], fields[i]) THEN fields[i] ELSE state[i]]

\* the update_state block of the generated function; RETURN_ERROR and an
\* end_status other than SOL_OIC_MAP_LOOP_OK jump over it
update_state(state, fields, reached) ==
    IF ~reached THEN state
    ELSE [i \in DOMAIN state |-> IF check_updated_int32(state[i], fields[i]) THEN fields[i] ELSE state[i]]

\* the function generate_object_from_repr_vec_fn_common_c writes: fields
\* starts as a copy of the state
state_from_repr_vec(decoders, state, repr_vec, end_status, decode_mask) ==
    LET loop == MapLoop(decoders, state, decode_mask, repr_vec, 1)
        reached == ~loop.err /\ end_status = "OK"
        after == update_state(state, loop.fields, reached)
    IN  [state |-> after,
         ret |-> IF loop.err THEN 0 - EINVAL
                 ELSE IF end_status # "OK" THEN 0
                 ELSE IF \E i \in DOMAIN state : check_updated_int32(state[i], loop.fields[i])
                      THEN 1 ELSE 0]

\* object_from_repr_vec_fn_common_c for the second resource type: a cast
\* and a call of the first one's function when the two are equivalent,
\* its own function otherwise
common_decoders(first, second) ==
    IF props_are_equivalent(new_props(second), new_props(first))
    THEN object_fields_from_repr_vec(new_props(first))
    ELSE object_fields_from_repr_vec(new_props(second))

\* object_open_fn_server_c: .from_repr_vec is NULL when every property is
\* read-only
no_inputs(props) == \A i \in DOMAIN props : props[i].read_only

\* what the generator writes for the second resource type
GenerateSecond(first, second) ==
    [props |-> new_props(second),
     shared |-> props_are_equivalent(new_props(second), new_props(first)),
     decoders |-> common_decoders(first, second),
     server_mask |-> object_from_repr_vec_fn_server_c(new_props(second)),
     client_mask |-> object_from_repr_vec_fn_client_c,
     server_from_repr_vec |-> ~no_inputs(new_props(second))]

NoGenerated == [props |-> <<>>, shared |-> FALSE, decoders |-> <<>>, server_mask |-> {},
                client_mask |-> {}, server_from_repr_vec |-> FALSE]

\* the keys an incoming representation may carry, in the order of the map
ReprKeys == <<"a_b", "aB", "mode">>

\* what one key carries: nothing, or a field of a type with a value
NoField == [type |-> "none", v_int |-> 0, v_slice |-> ""]

ReprValues == {NoField,
               [type |-> "INT", v_int |-> 0, v_slice |-> ""],
               [type |-> "INT", v_int |-> 1, v_slice |-> ""],
               [type |-> "TEXT_STRING", v_int |-> 0, v_slice |-> "on"],
               [type |-> "TEXT_STRING", v_int |-> 0, v_slice |-> "zz"]}

EndStatus == {"OK", "INVALID"}

\* the fields SOL_OIC_MAP_LOOP yields for a choice of values
ReprVec(choice) ==
    LET all == [k \in DOMAIN ReprKeys |->
                  [key |-> ReprKeys[k], type |-> choice[k].type,
                   v_int |-> choice[k].v_int, v_slice |-> choice[k].v_slice]]
    IN  SelectSeq(all, LAMBDA f : f.type # "none")

NoCall == [role |-> "none", called |-> FALSE, before |-> <<>>, repr_vec |-> <<>>,
           end_status |-> "OK", decode_mask |-> {}, ret |-> 0, code |-> "none"]

ReprIdle == /\ rIn = [first |-> {}, second |-> {}]
            /\ rpc = "idle"
            /\ rGen = NoGenerated
            /\ rState = <<>>
            /\ rEv = NoCall

ReprInit == /\ rIn \in [first : FirstSchemas, second : Schemas]
            /\ rpc = "schemas"
            /\ rGen = NoGenerated
            /\ rState = <<>>
            /\ rEv = NoCall

\* generate_for_schema over the two resource types
ReprGenerate ==
    /\ rpc = "schemas"
    /\ rGen' = GenerateSecond(rIn.first, rIn.second)
    /\ rpc' = "generated"
    /\ UNCHANGED <<rIn, rState, rEv>>
    /\ UNCHANGED notRepr

\* <struct>_open of a node of the second resource type: every field of
\* the state starts at 0
ReprOpen ==
    /\ rpc = "generated"
    /\ rState' = [i \in DOMAIN rGen.props |-> 0]
    /\ rpc' = "open"
    /\ UNCHANGED <<rIn, rGen, rEv>>
    /\ UNCHANGED notRepr

\* server_handle_update: a PUT or POST arrives at the server node
ReprHandleUpdate ==
    /\ rpc = "open"
    /\ \E choice \in [DOMAIN ReprKeys -> ReprValues], end_status \in EndStatus :
          LET repr_vec == ReprVec(choice)
              r == state_from_repr_vec(rGen.decoders, rState, repr_vec, end_status,
                                       rGen.server_mask)
          IN  IF ~rGen.server_from_repr_vec
              THEN /\ rState' = rState
                   /\ rEv' = [role |-> "server", called |-> FALSE, before |-> rState,
                              repr_vec |-> repr_vec, end_status |-> end_status,
                              decode_mask |-> rGen.server_mask, ret |-> 0,
                              code |-> "NOT_IMPLEMENTED"]
              ELSE /\ rState' = r.state
                   /\ rEv' = [role |-> "server", called |-> TRUE, before |-> rState,
                              repr_vec |-> repr_vec, end_status |-> end_status,
                              decode_mask |-> rGen.server_mask, ret |-> r.ret,
                              code |-> IF r.ret > 0 THEN "CHANGED"
                                       ELSE IF r.ret = 0 THEN "OK"
                                       ELSE "PRECONDITION_FAILED"]
    /\ rpc' = "done"
    /\ UNCHANGED <<rIn, rGen>>
    /\ UNCHANGED notRepr

\* state_changed: a notification or a response arrives at the client node
ReprStateChanged ==
    /\ rpc = "open"
    /\ \E choice \in [DOMAIN ReprKeys -> ReprValues], end_status \in EndStatus :
          LET repr_vec == ReprVec(choice)
              r == state_from_repr_vec(rGen.decoders, rState, repr_vec, end_status,
                                       rGen.client_mask)
          IN  /\ rState' = r.state
              /\ rEv' = [role |-> "client", called |-> TRUE, before |-> rState,
                         repr_vec |-> repr_vec, end_status |-> end_status,
                         decode_mask |-> rGen.client_mask, ret |-> r.ret,
                         code |-> IF r.ret > 0 THEN "inform_flow" ELSE "none"]
    /\ rpc' = "done"
    /\ UNCHANGED <<rIn, rGen>>
    /\ UNCHANGED notRepr

ReprNext == \/ ReprGenerate
            \/ ReprOpen
            \/ ReprHandleUpdate
            \/ ReprStateChanged

\* the field of the incoming representation for the decoder with index i,
\* when the decoder's bit is set in the mask of the call
Selected(i) ==
    /\ BitSet(rEv.decode_mask, i - 1)
    /\ \E k \in DOMAIN rEv.repr_vec : rEv.repr_vec[k].key = rGen.decoders[i].field_name

Incoming(i) ==
    rEv.repr_vec[CHOOSE k \in DOMAIN rEv.repr_vec :
                    rEv.repr_vec[k].key = rGen.decoders[i].field_name]

\* the incoming field is acceptable for the decoder: an integer for an
\* integer property, the text of a known item for an enumerated one
WellTyped(i) ==
    IF rGen.decoders[i].enum
    THEN Incoming(i).type = "TEXT_STRING"
         /\ \E k \in DOMAIN EnumItems : EnumItems[k] = Incoming(i).v_slice
    ELSE Incoming(i).type \in {"UINT", "INT", "SIMPLE"}

IncomingValue(i) ==
    IF rGen.decoders[i].enum
    THEN (CHOOSE k \in DOMAIN EnumItems : EnumItems[k] = Incoming(i).v_slice) - 1
    ELSE Incoming(i).v_int

SomeBadField == \E i \in DOMAIN rGen.decoders : Selected(i) /\ ~WellTyped(i)

ReadOnlyUntouched ==
    \A i \in DOMAIN rGen.props : rGen.props[i].read_only => rState[i] = rEv.before[i]

MaskExact ==
    /\ \A i \in DOMAIN rGen.props : BitSet(rGen.server_mask, i - 1) <=> ~rGen.props[i].read_only
    /\ \A id \in MaskBits : BitSet(rGen.server_mask, id) => id < Len(rGen.props)

SameProperty ==
    \A i \in DOMAIN rGen.props : rGen.decoders[i].field_name = rGen.props[i].name

AllReadOnlyRefused ==
    no_inputs(rGen.props) => (~rGen.server_from_repr_vec /\ rEv.code = "NOT_IMPLEMENTED")

\* C20: on a server node a PUT or POST never modifies a read-only
\* property: the decode mask has a bit exactly for the properties that are
\* not read-only, bit i denotes the same property in the mask and in the
\* decoder (also when the decoder is the one of an equivalent state
\* struct), and a resource whose properties are all read-only has no
\* from_repr_vec and answers NOT_IMPLEMENTED.
C20_ReadOnlyNeverModified ==
    (rpc = "done" /\ rEv.role = "server") =>
        /\ ReadOnlyUntouched
        /\ MaskExact
        /\ SameProperty
        /\ AllReadOnlyRefused

\* C20, what does hold: the storage of a read-only property is never
\* written, the mask is exact and an all-read-only resource refuses; a
\* struct with its own decoder matches every bit against its own property
C20_HoldsPositionally ==
    (rpc = "done" /\ rEv.role = "server") =>
        /\ ReadOnlyUntouched
        /\ MaskExact
        /\ AllReadOnlyRefused
        /\ ~rGen.shared => SameProperty

\* C20, the failure: through the decoder of an equivalent struct a request
\* that names only a read-only property changes another property
C20_WrongPropertyWritten ==
    /\ rpc = "done" /\ rEv.role = "server" /\ rGen.shared
    /\ \E i \in DOMAIN rGen.props :
          /\ rGen.props[i].read_only
          /\ \A k \in DOMAIN rEv.repr_vec : rEv.repr_vec[k].key = rGen.props[i].name
          /\ rEv.repr_vec # <<>>
    /\ rState # rEv.before

(***************************************************************************)
(* Specifications, one per script                                          *)
(***************************************************************************)
InitValidate == ValInit /\ GenIdle /\ EntIdle /\ DepIdle /\ SuiteIdle
                /\ OicIdle /\ StubIdle /\ ApiIdle /\ SampIdle /\ TplIdle
                /\ ClientIdle /\ ServerIdle /\ ReprIdle

SpecValidate == InitValidate /\ [][ValNext]_vars

InitGen == GenInit /\ ValIdle /\ EntIdle /\ DepIdle /\ SuiteIdle /\ OicIdle
           /\ StubIdle /\ ApiIdle /\ SampIdle /\ TplIdle /\ ClientIdle
           /\ ServerIdle /\ ReprIdle

SpecGen == InitGen /\ [][GenNext]_vars

InitEntry == EntInit /\ ValIdle /\ GenIdle /\ DepIdle /\ SuiteIdle /\ OicIdle
             /\ StubIdle /\ ApiIdle /\ SampIdle /\ TplIdle /\ ClientIdle
             /\ ServerIdle /\ ReprIdle

SpecEntry == InitEntry /\ [][EntNext]_vars

InitDep == DepInit /\ ValIdle /\ GenIdle /\ EntIdle /\ SuiteIdle /\ OicIdle
           /\ StubIdle /\ ApiIdle /\ SampIdle /\ TplIdle /\ ClientIdle
           /\ ServerIdle /\ ReprIdle

SpecDep == InitDep /\ [][DepNext]_vars

InitSuite == SuiteInit /\ ValIdle /\ GenIdle /\ EntIdle /\ DepIdle /\ OicIdle
             /\ StubIdle /\ ApiIdle /\ SampIdle /\ TplIdle /\ ClientIdle
             /\ ServerIdle /\ ReprIdle

SpecSuite == InitSuite /\ [][SuiteNext]_vars

InitOic == OicInit /\ ValIdle /\ GenIdle /\ EntIdle /\ DepIdle /\ SuiteIdle
           /\ StubIdle /\ ApiIdle /\ SampIdle /\ TplIdle /\ ClientIdle
           /\ ServerIdle /\ ReprIdle

SpecOic == InitOic /\ [][OicNext]_vars

InitStub == StubInit /\ ValIdle /\ GenIdle /\ EntIdle /\ DepIdle /\ SuiteIdle
            /\ OicIdle /\ ApiIdle /\ SampIdle /\ TplIdle /\ ClientIdle
            /\ ServerIdle /\ ReprIdle

SpecStub == InitStub /\ [][StubNext]_vars

InitApi == ApiInit /\ ValIdle /\ GenIdle /\ EntIdle /\ DepIdle /\ SuiteIdle
           /\ OicIdle /\ StubIdle /\ SampIdle /\ TplIdle /\ ClientIdle
           /\ ServerIdle /\ ReprIdle

SpecApi == InitApi /\ [][ApiNext]_vars

InitSamp == SampInit /\ ValIdle /\ GenIdle /\ EntIdle /\ DepIdle /\ SuiteIdle
            /\ OicIdle /\ StubIdle /\ ApiIdle /\ TplIdle /\ ClientIdle
            /\ ServerIdle /\ ReprIdle

SpecSamp == InitSamp /\ [][SampNext]_vars

InitTpl == TplInit /\ ValIdle /\ GenIdle /\ EntIdle /\ DepIdle /\ SuiteIdle
           /\ OicIdle /\ StubIdle /\ ApiIdle /\ SampIdle /\ ClientIdle
           /\ ServerIdle /\ ReprIdle

SpecTpl == InitTpl /\ [][TplNext]_vars

InitClient == ClientInit /\ ValIdle /\ GenIdle /\ EntIdle /\ DepIdle
              /\ SuiteIdle /\ OicIdle /\ StubIdle /\ ApiIdle /\ SampIdle
              /\ TplIdle /\ ServerIdle /\ ReprIdle

SpecClient == InitClient /\ [][ClientNext]_vars

InitServer == ServerInit /\ ValIdle /\ GenIdle /\ EntIdle /\ DepIdle
              /\ SuiteIdle /\ OicIdle /\ StubIdle /\ ApiIdle /\ SampIdle
              /\ TplIdle /\ ClientIdle /\ ReprIdle

SpecServer == InitServer /\ [][ServerNext]_vars

InitRepr == ReprInit /\ ValIdle /\ GenIdle /\ EntIdle /\ DepIdle /\ SuiteIdle
            /\ OicIdle /\ StubIdle /\ ApiIdle /\ SampIdle /\ TplIdle
            /\ ClientIdle /\ ServerIdle

SpecRepr == InitRepr /\ [][ReprNext]_vars

====
